---- MODULE Spec2Model ----
(***************************************************************************)
(* Model of the flood keys lookup (sandpit/keys_server_global.py):         *)
(* GLOBAL_FLOODKeysLookup, its reference tables and process_locations.     *)
(*                                                                         *)
(* Representation                                                          *)
(*  - A Python str that the code searches, splits or rewrites is a         *)
(*    sequence of one-character strings; identifiers that are only         *)
(*    compared (status ids, messages, building categories) are strings.    *)
(*  - A DataFrame is the set of its rows (records); row order and the      *)
(*    pandas index are not modelled.                                       *)
(*  - A float cell that may be missing is <<x>> or NaN (the empty tuple).  *)
(*  - latitude/longitude are counted in half arc-seconds (1/7200 degree),  *)
(*    so floor(x * 3600) is x \div 2.                                      *)
(*  - firstfloorheight is counted in 1/10000 of its unit (0.05 is 500).    *)
(*  - bipoi is counted in half days (183 days is 366).                     *)
(***************************************************************************)
EXTENDS Integers, Sequences, FiniteSets, TLC

VARIABLES
    dataset,        \* the location file the batches are cut from
    at_risk_df,     \* self.at_risk_df of the lookup object
    loc_df,         \* the batch given to the last process_locations call
    keys_df,        \* the keys frame of the last call (all columns), or {}
    prev_loc_df,    \* the batch of the call before the last one
    prev_keys,      \* the keys returned by the call before the last one
    acc_keys,       \* union of the keys returned since construction
    covered,        \* loc_ids processed since construction
    disjoint,       \* whether the batches so far were pairwise disjoint
    calls,          \* number of process_locations calls so far
    raised,         \* the exception the last call ended with, or "none"
    row,            \* the row a single-row specification works on
    stage           \* the position of a single-row specification

vars == <<dataset, at_risk_df, loc_df, keys_df, prev_loc_df, prev_keys, acc_keys,
          covered, disjoint, calls, raised, row, stage>>

-----------------------------------------------------------------------------
(* Missing values and text *)

NaN == <<>>

notna(x) == x # NaN

isna(x) == x = NaN

\* str.contains(p) for a pattern free of regex metacharacters
Contains(s, p) ==
    \E i \in 1..(Len(s) - Len(p) + 1) : SubSeq(s, i, i + Len(p) - 1) = p

UpperChar(c) ==
    CASE c = "a" -> "A" [] c = "b" -> "B" [] c = "c" -> "C" [] c = "d" -> "D"
      [] c = "e" -> "E" [] c = "x" -> "X" [] c = "y" -> "Y" [] c = "z" -> "Z"
      [] OTHER -> c

\* astype(str).str.replace(" ", "").str.upper()
NormalizePostcode(s) ==
    LET IsNotSpace(c) == c # " "
        t == SelectSeq(s, IsNotSpace)
    IN  [i \in 1..Len(t) |-> UpperChar(t[i])]

RECURSIVE Split(_, _)
\* str.split(sep) for a one-character separator
Split(s, sep) ==
    IF \A i \in 1..Len(s) : s[i] # sep THEN <<s>>
    ELSE LET k == CHOOSE i \in 1..Len(s) :
                      s[i] = sep /\ \A j \in 1..(i - 1) : s[j] # sep
         IN  <<SubSeq(s, 1, k - 1)>> \o Split(SubSeq(s, k + 1, Len(s)), sep)

DigitValue(c) ==
    CASE c = "0" -> 0 [] c = "1" -> 1 [] c = "2" -> 2 [] c = "3" -> 3
      [] c = "4" -> 4 [] c = "5" -> 5 [] c = "6" -> 6 [] c = "7" -> 7
      [] c = "8" -> 8 [] c = "9" -> 9 [] OTHER -> -1

RECURSIVE DigitsValue(_)
DigitsValue(s) ==
    IF Len(s) = 0 THEN 0
    ELSE 10 * DigitsValue(SubSeq(s, 1, Len(s) - 1)) + DigitValue(s[Len(s)])

\* int(text): <<n>> when text is an optionally signed run of digits, NaN
\* (standing for ValueError) otherwise
ParseInt(s) ==
    LET neg == Len(s) > 0 /\ s[1] = "-"
        d == IF neg THEN Tail(s) ELSE s
    IN  IF Len(d) = 0 \/ \E i \in 1..Len(d) : DigitValue(d[i]) < 0 THEN NaN
        ELSE <<IF neg THEN 0 - DigitsValue(d) ELSE DigitsValue(d)>>

SetMin(S) == CHOOSE x \in S : \A y \in S : x <= y

Min2(a, b) == IF a <= b THEN a ELSE b

Max2(a, b) == IF a >= b THEN a ELSE b

-----------------------------------------------------------------------------
(* Identifiers of the libraries the code imports *)

FLUVIAL_ID == <<"O", "R", "F">>

PLUVIAL_ID == <<"O", "S", "F">>

COASTAL_ID == <<"W", "S", "S">>

SEMI == <<";">>

ALL_PERILS == FLUVIAL_ID \o SEMI \o PLUVIAL_ID \o SEMI \o COASTAL_ID

\* oasislmf PERIL_GROUPS[...]["id"]
PERIL_GROUP_ALL == <<"A", "A", "1">>

PERIL_GROUP_FLOOD_NO_SURGE == <<"O", "O", "1">>

PERIL_GROUP_WIND_SURGE == <<"W", "W", "1">>

\* oasislmf SUPPORTED_COVERAGE_TYPES[...]["id"]
COVERAGE_BUILDINGS == 1

COVERAGE_CONTENTS == 3

COVERAGE_BI == 4

perils == {FLUVIAL_ID, PLUVIAL_ID, COASTAL_ID}

coverages == {COVERAGE_BUILDINGS, COVERAGE_CONTENTS, COVERAGE_BI}

\* oasislmf OASIS_KEYS_STATUS[...]["id"] and OASIS_KEYS_FL
STATUS_SUCCESS == "success"

STATUS_NOTATRISK == "notatrisk"

STATUS_FAIL_V == "fail_v"

STATUS_FAIL_AP == "fail_ap"

STATUS_FAIL == "fail"

OASIS_KEYS_FL == STATUS_FAIL

MSG_SUCCESS == ""

MSG_NOTATRISK ==
    "area-peril and vulnerability valid, but location not exposed to this peril"

MSG_FAIL_V == "area-peril valid, vulnerability invalid"

MSG_FAIL_AP == "vulnerability valid, area-peril invalid"

MSG_FAIL == "area-peril and vulnerability invalid"

MSG_NO_CATCHMENT == "could not find catchment for lat/lon"

\* a building_cat cell that was never assigned (NaN in an object column)
NO_CAT == "NaN"

-----------------------------------------------------------------------------
(* Reference tables loaded by __init__ *)

\* postcode_dict.csv as read (postcode, latitude, longitude)
postcode_csv ==
    { [postalcode |-> <<"a", "b", "1", " ", "2", "c", "d">>,
       pc_lat |-> 40, pc_lon |-> 50],
      [postalcode |-> <<"X", "Y", "9">>, pc_lat |-> 10, pc_lon |-> 20] }

\* self.postcode_df: the table with its postcodes stripped of spaces and
\* upper-cased
postcode_df ==
    { [postalcode |-> NormalizePostcode(p.postalcode),
       pc_lat |-> p.pc_lat, pc_lon |-> p.pc_lon] : p \in postcode_csv }

\* self.yearbuilt_df: yearbuilt -> year-built category
yearbuilt_df ==
    { [yearbuilt |-> 1950, yearbuilt_cat |-> 1],
      [yearbuilt |-> 1990, yearbuilt_cat |-> 2] }

\* self.mcm_res_df: (building_cat, yearbuilt_cat) -> mcm_code
mcm_res_df ==
    { [building_cat |-> "detached", yearbuilt_cat |-> 2, mcm_code |-> 10],
      [building_cat |-> "bungalow", yearbuilt_cat |-> 2, mcm_code |-> 15],
      [building_cat |-> "flat", yearbuilt_cat |-> 1, mcm_code |-> 20],
      [building_cat |-> "terraced", yearbuilt_cat |-> 1, mcm_code |-> 30] }

\* self.mcm_nonres_df: occupancycode -> mcm_code
mcm_nonres_df ==
    { [occupancycode |-> 1100, mcm_code |-> 50],
      [occupancycode |-> 1150, mcm_code |-> 60] }

PerilIndex(p) ==
    CASE p = FLUVIAL_ID -> 1 [] p = PLUVIAL_ID -> 2 [] p = COASTAL_ID -> 3

\* self.vulnerability_df after the coverage and peril columns are
\* reformulated: (mcm_code, coveragetype_id, peril_type,
\* user_vulnerability_id) -> vulnerability_id
vulnerability_df ==
    { [mcm_code |-> m, coveragetype_id |-> c, peril_type |-> p,
       user_vulnerability_id |-> 0,
       vulnerability_id |-> 100 * m + 10 * c + PerilIndex(p)] :
          m \in {1, 10, 20, 50}, c \in {COVERAGE_BUILDINGS, COVERAGE_CONTENTS},
          p \in perils }
    \cup
    { [mcm_code |-> m, coveragetype_id |-> COVERAGE_BI,
       peril_type |-> ALL_PERILS, user_vulnerability_id |-> 0,
       vulnerability_id |-> 100 * m + 10 * COVERAGE_BI] : m \in {0, 1, 10, 20} }

\* wet_area_peril.parquet as read by __init__: the at-risk grid
AtRiskGrid ==
    { [peril_id |-> FLUVIAL_ID, lat_id |-> 5, lon_id |-> 10],
      [peril_id |-> PLUVIAL_ID, lat_id |-> 5, lon_id |-> 15],
      [peril_id |-> COASTAL_ID, lat_id |-> 5, lon_id |-> 15],
      [peril_id |-> COASTAL_ID, lat_id |-> 0, lon_id |-> 0],
      [peril_id |-> FLUVIAL_ID, lat_id |-> 20, lon_id |-> 25],
      [peril_id |-> PLUVIAL_ID, lat_id |-> 13, lon_id |-> 10],
      [peril_id |-> FLUVIAL_ID, lat_id |-> 13, lon_id |-> 15],
      [peril_id |-> FLUVIAL_ID, lat_id |-> -2, lon_id |-> 15] }

\* uk.tif, band 1: pixel <<row, col>> -> catchment id
uk_tif ==
    [p \in (0..3) \X (0..4) |->
        CASE p = <<2, 2>> -> 7
          [] p = <<2, 3>> -> -1
          [] p = <<0, 2>> -> 3
          [] OTHER -> 0]

\* catchments_tif.index(x, y): the pixel of a coordinate (top edge at 32,
\* left edge at 0, 8 half arc-seconds per pixel)
RasterIndex(longitude, latitude) ==
    <<(32 - latitude) \div 8, longitude \div 8>>

\* catchments_tif.read(1, window=Window(px, py, 1, 1))[0][0] then int():
\* <<value>>, or NaN when the window lies off the array (the read is
\* cropped to nothing and the subscript raises IndexError)
RasterRead(p) == IF p \in DOMAIN uk_tif THEN <<uk_tif[p]>> ELSE NaN

-----------------------------------------------------------------------------
(* Field normalization: process_locations, the defaults loop *)

default_field_values ==
    [locperilscovered |-> ALL_PERILS,
     buildingtype |-> 0,
     occupancycode |-> 1000,
     constructioncode |-> 5000,
     numberofstoreys |-> 0,
     floorsoccupied |-> <<"0">>,
     firstfloorheight |-> -9990000,
     firstfloorheightunit |-> 1,
     yearbuilt |-> 0,
     bipoi |-> 730,
     latitude |-> 0,
     longitude |-> 0,
     postalcode |-> <<"-", "1">>]

default_field_types ==
    [locperilscovered |-> "str",
     buildingtype |-> "int",
     occupancycode |-> "int",
     constructioncode |-> "int",
     numberofstoreys |-> "int",
     floorsoccupied |-> "str",
     firstfloorheight |-> "float",
     firstfloorheightunit |-> "int",
     yearbuilt |-> "int",
     bipoi |-> "float",
     latitude |-> "float",
     longitude |-> "float",
     postalcode |-> "str"]

\* NormalizeField without the replacement of 0 in an integer column
NormalizeField_ZeroKept(r, key) ==
    LET value == default_field_values[key]
        type == default_field_types[key]
    IN  IF key \notin DOMAIN r THEN value
        ELSE IF type = "float" THEN (IF isna(r[key]) THEN value ELSE r[key][1])
        ELSE IF type = "str" THEN (IF r[key] = <<>> THEN value ELSE r[key])
        ELSE r[key]

\* One pass of the loop body for column `key` of raw row r. A raw float
\* cell is <<x>> or NaN; the result is a plain value.
NormalizeField(r, key) ==
    LET value == default_field_values[key]
        type == default_field_types[key]
    IN  IF key \notin DOMAIN r THEN value
        ELSE IF type = "float" THEN (IF isna(r[key]) THEN value ELSE r[key][1])
        ELSE IF type = "str" THEN (IF r[key] = <<>> THEN value ELSE r[key])
        ELSE (IF r[key] = 0 THEN value ELSE r[key])

\* The row after renaming locuserdef1, defaulting and the projection on
\* USED_LOC_DF_COLUMNS
NormalizeRow(r) ==
    [k \in DOMAIN default_field_values |-> NormalizeField(r, k)]
    @@ [loc_id |-> r.loc_id,
        locnumber |-> r.locnumber,
        accnumber |-> r.accnumber,
        portnumber |-> r.portnumber,
        user_vulnerability_id |->
            IF "locuserdef1" \in DOMAIN r THEN r.locuserdef1 ELSE 0]

-----------------------------------------------------------------------------
(* Classification engine *)

\* get_mobile_home: the mobilehome_cat column
get_mobile_home(r) ==
    r.constructioncode >= 5350 /\ r.constructioncode < 5400
        /\ r.occupancycode < 1100

\* merge(right=self.yearbuilt_df, how="left"): the year-built category
YearbuiltCat(r) ==
    IF \E t \in yearbuilt_df : t.yearbuilt = r.yearbuilt
    THEN <<(CHOOSE t \in yearbuilt_df : t.yearbuilt = r.yearbuilt).yearbuilt_cat>>
    ELSE NaN

\* ResidentialCategory with the two occupancy overrides filling
\* building_cat only where it is still null
ResidentialCategory_OverridesFillOnly(r) ==
    LET c0 == IF r.mobilehome_cat THEN "bungalow" ELSE NO_CAT
        c1 == IF r.buildingtype = 1 /\ r.numberofstoreys = 1 /\ c0 = NO_CAT
              THEN "bungalow" ELSE c0
        c2 == IF r.buildingtype = 1 /\ c1 = NO_CAT THEN "detached" ELSE c1
        c3 == IF r.buildingtype = 2 /\ c2 = NO_CAT THEN "semidetached" ELSE c2
        c4 == IF (r.buildingtype = 3 \/ r.buildingtype = 4) /\ c3 = NO_CAT
              THEN "terraced" ELSE c3
        c5 == IF r.buildingtype = 5 /\ r.numberofstoreys > 1 /\ c4 = NO_CAT
              THEN "detached" ELSE c4
        c6 == IF r.buildingtype = 5 /\ c5 = NO_CAT THEN "bungalow" ELSE c5
        c7 == IF (r.occupancycode = 1052 \/ r.occupancycode = 1055) /\ c6 = NO_CAT
              THEN "flat" ELSE c6
        c8 == IF r.occupancycode = 1056 /\ c7 = NO_CAT THEN "terraced" ELSE c7
    IN  c8

\* get_mcm_code_residential, the assignments before the MCM merge: each
\* rule of the cascade fills building_cat only where it is still null, the
\* two occupancy overrides always assign
ResidentialCategory(r) ==
    LET c0 == IF r.mobilehome_cat THEN "bungalow" ELSE NO_CAT
        c1 == IF r.buildingtype = 1 /\ r.numberofstoreys = 1 /\ c0 = NO_CAT
              THEN "bungalow" ELSE c0
        c2 == IF r.buildingtype = 1 /\ c1 = NO_CAT THEN "detached" ELSE c1
        c3 == IF r.buildingtype = 2 /\ c2 = NO_CAT THEN "semidetached" ELSE c2
        c4 == IF (r.buildingtype = 3 \/ r.buildingtype = 4) /\ c3 = NO_CAT
              THEN "terraced" ELSE c3
        c5 == IF r.buildingtype = 5 /\ r.numberofstoreys > 1 /\ c4 = NO_CAT
              THEN "detached" ELSE c4
        c6 == IF r.buildingtype = 5 /\ c5 = NO_CAT THEN "bungalow" ELSE c5
        c7 == IF r.occupancycode = 1052 \/ r.occupancycode = 1055
              THEN "flat" ELSE c6
        c8 == IF r.occupancycode = 1056 THEN "terraced" ELSE c7
    IN  c8

\* merge(right=self.mcm_res_df, how="left") on (building_cat, yearbuilt_cat)
McmResJoin(cat, ybcat) ==
    LET hit == { t \in mcm_res_df :
                    t.building_cat = cat /\ <<t.yearbuilt_cat>> = ybcat }
    IN  IF hit = {} THEN NaN ELSE <<(CHOOSE t \in hit : TRUE).mcm_code>>

\* get_mcm_code_residential with the general override assigned whether or
\* not building_cat is null
get_mcm_code_residential_GeneralAlways(r) ==
    LET cat == ResidentialCategory(r)
        m0 == McmResJoin(cat, YearbuiltCat(r))
        a == IF r.occupancycode = 1053 THEN <<<<51>>, "nonres">> ELSE <<m0, cat>>
        b == IF r.occupancycode = 1054 THEN <<<<6>>, "nonres">> ELSE a
        c == IF r.occupancycode = 1050 \/ r.occupancycode = 1051
                    \/ r.occupancycode = 1000
             THEN <<<<1>>, "general_res">> ELSE b
    IN  c

\* get_mcm_code_residential: <<mcm_code, building_cat>> of a residential row
get_mcm_code_residential(r) ==
    LET cat == ResidentialCategory(r)
        m0 == McmResJoin(cat, YearbuiltCat(r))
        a == IF r.occupancycode = 1053 THEN <<<<51>>, "nonres">> ELSE <<m0, cat>>
        b == IF r.occupancycode = 1054 THEN <<<<6>>, "nonres">> ELSE a
        c == IF (r.occupancycode = 1050 \/ r.occupancycode = 1051
                    \/ r.occupancycode = 1000) /\ b[2] = NO_CAT
             THEN <<<<1>>, "general_res">> ELSE b
    IN  c

\* get_mcm_code_non_residential: <<mcm_code, building_cat>>
get_mcm_code_non_residential(r) ==
    LET hit == { t \in mcm_nonres_df : t.occupancycode = r.occupancycode }
    IN  <<IF hit = {} THEN NaN ELSE <<(CHOOSE t \in hit : TRUE).mcm_code>>,
          "nonres">>

\* get_number_of_storeys without the cap at 6 storeys
get_number_of_storeys_NoCap(storeys, cat) ==
    LET s1 == IF cat = "bungalow" THEN 0 ELSE storeys
        s2 == IF s1 = 0 /\ (cat = "detached" \/ cat = "semidetached"
                                \/ cat = "terraced")
              THEN 2 ELSE s1
        s3 == IF s2 = 0 /\ cat = "flat" THEN 1 ELSE s2
        s4 == IF cat = "general_res" THEN 0 ELSE s3
        s5 == IF s4 = 0 /\ cat = "nonres" THEN 1 ELSE s4
    IN  s5

\* get_number_of_storeys
get_number_of_storeys(storeys, cat) ==
    LET s1 == IF cat = "bungalow" THEN 0 ELSE storeys
        s2 == IF s1 = 0 /\ (cat = "detached" \/ cat = "semidetached"
                                \/ cat = "terraced")
              THEN 2 ELSE s1
        s3 == IF s2 = 0 /\ cat = "flat" THEN 1 ELSE s2
        s4 == IF cat = "general_res" THEN 0 ELSE s3
        s5 == IF s4 = 0 /\ cat = "nonres" THEN 1 ELSE s4
        s6 == IF s5 > 6 THEN 6 ELSE s5
    IN  s6

\* get_floors_occupied: <<floors>>, or NaN when int() raises ValueError
get_floors_occupied(floorsoccupied) ==
    LET parts == Split(floorsoccupied, ";")
        ints == { ParseInt(parts[i]) : i \in 1..Len(parts) }
    IN  IF NaN \in ints THEN NaN
        ELSE <<Min2(3, Max2(SetMin({ x[1] : x \in ints }), 0))>>

\* FirstFloorHeight with the feet correction applied whatever the unit
FirstFloorHeight_ConvertsMetres(r, cat) ==
    LET h0 == r.firstfloorheight
        h1 == IF h0 # -9990000
              THEN (h0 * 3048) \div 10000 ELSE h0
        h2 == IF r.mobilehome_cat /\ h1 = -9990000 THEN 6000 ELSE h1
        h3 == IF cat = "nonres" /\ h2 = -9990000 THEN 6000 ELSE h2
        h4 == IF h3 = -9990000 THEN 3000 ELSE h3
    IN  h4

\* get_first_floor_height, the unit correction and the defaults: the
\* height in 1/10000 metre
FirstFloorHeight(r, cat) ==
    LET h0 == r.firstfloorheight
        h1 == IF r.firstfloorheightunit = 1 /\ h0 # -9990000
              THEN (h0 * 3048) \div 10000 ELSE h0
        h2 == IF r.mobilehome_cat /\ h1 = -9990000 THEN 6000 ELSE h1
        h3 == IF cat = "nonres" /\ h2 = -9990000 THEN 6000 ELSE h2
        h4 == IF h3 = -9990000 THEN 3000 ELSE h3
    IN  h4

\* a number of days in the unit bipoi is counted in
Days(d) == 2 * d

IsResLike(cat) ==
    cat = "detached" \/ cat = "semidetached" \/ cat = "terraced"
        \/ cat = "flat" \/ cat = "bungalow" \/ cat = "general_res"

\* The conditions of the bipoi_cat assignments of get_bi_poi, in order,
\* each with the bucket it assigns
BiPoiRules(bipoi, cat) ==
    << <<bipoi > 0 /\ bipoi <= Days(183) /\ IsResLike(cat), 1>>,
       <<bipoi > Days(183) /\ IsResLike(cat), 183>>,
       <<bipoi > 0 /\ bipoi < Days(137) /\ cat = "nonres", 0>>,
       <<bipoi >= Days(137) /\ bipoi < Days(228) /\ cat = "nonres", 137>>,
       <<bipoi >= Days(228) /\ bipoi < Days(319) /\ cat = "nonres", 228>>,
       <<bipoi >= Days(319) /\ bipoi < Days(411) /\ cat = "nonres", 319>>,
       <<bipoi >= Days(411) /\ bipoi < Days(502) /\ cat = "nonres", 411>>,
       <<bipoi >= Days(502) /\ bipoi < Days(593) /\ cat = "nonres", 502>>,
       <<bipoi >= Days(593) /\ bipoi < Days(684) /\ cat = "nonres", 593>>,
       <<bipoi >= Days(684) /\ bipoi < Days(776) /\ cat = "nonres", 684>>,
       <<bipoi >= Days(776) /\ bipoi < Days(867) /\ cat = "nonres", 776>>,
       <<bipoi >= Days(867) /\ bipoi < Days(958) /\ cat = "nonres", 867>>,
       <<bipoi >= Days(958) /\ bipoi < Days(1049) /\ cat = "nonres", 958>>,
       <<bipoi >= Days(1049) /\ cat = "nonres", 1049>> >>

RECURSIVE ApplyRules(_, _, _)
\* Conditional assignments applied in order: the last rule whose condition
\* holds leaves its value, and a cell no rule touches stays as it was
ApplyRules(rules, i, cell) ==
    IF i > Len(rules) THEN cell
    ELSE ApplyRules(rules, i + 1, IF rules[i][1] THEN <<rules[i][2]>> ELSE cell)

\* get_bi_poi: bipoi_cat, NaN when no assignment applies
get_bi_poi(bipoi, cat) == ApplyRules(BiPoiRules(bipoi, cat), 1, NaN)

\* The conditions of the ffh_cat assignments of get_first_floor_height
FfhRules(h) ==
    << <<h >= 0 /\ h < 500, 0>>,
       <<h >= 500 /\ h < 1500, 500>>,
       <<h >= 1500 /\ h < 2500, 1500>>,
       <<h >= 2500 /\ h < 3500, 2500>>,
       <<h >= 3500 /\ h < 6500, 3500>>,
       <<h >= 6500 /\ h < 13500, 6500>>,
       <<h >= 13500 /\ h < 26500, 13500>>,
       <<h >= 26500, 26500>> >>

\* get_first_floor_height: ffh_cat of a height, NaN when no assignment
\* applies
FfhCat(h) == ApplyRules(FfhRules(h), 1, NaN)

\* the buckets a value falls in: the values of the rules whose condition holds
Buckets(rules) == { rules[i][2] : i \in { j \in 1..Len(rules) : rules[j][1] } }

-----------------------------------------------------------------------------
(* process_locations, row by row up to the key expansion *)

\* The classification steps on a normalized row n, in the order
\* process_locations calls them
ClassifyRow(n) ==
    LET r == [mobilehome_cat |-> get_mobile_home(n)] @@ n
        mc == IF n.occupancycode < 1100 THEN get_mcm_code_residential(r)
              ELSE get_mcm_code_non_residential(r)
        cat == mc[2]
        h == FirstFloorHeight(r, cat)
    IN  [mcm_code |-> mc[1],
         building_cat |-> cat,
         numberofstoreys |-> get_number_of_storeys(n.numberofstoreys, cat),
         floorsoccupied |-> get_floors_occupied(n.floorsoccupied),
         firstfloorheight |-> h,
         ffh_cat |-> FfhCat(h),
         bipoi_cat |-> get_bi_poi(n.bipoi, cat)] @@ r

\* `x is False` read as a test of the value of x
IsPyFalse_ByValue(x) == ~x

\* `x is False` where x is the numpy.bool_ that Series.all() returns: the
\* identity test against the Python singleton fails whatever x is
IsPyFalse(x) == FALSE

\* temp_ll of get_latlon: the pc_lat/pc_lon cells of the selected rows
\* after filter(items=["latitude", "longitude"]) has no column left, so
\* the assignment aligns both target cells to missing values
TempLL(r) == [latitude |-> NaN, longitude |-> NaN]

\* merge(self.postcode_df, how="left", on="postalcode"): <<pc_lat, pc_lon>>
PostcodeJoin(postalcode) ==
    LET hit == { t \in postcode_df : t.postalcode = postalcode }
    IN  IF hit = {} THEN <<NaN, NaN>>
        ELSE LET t == CHOOSE t \in hit : TRUE IN <<<<t.pc_lat>>, <<t.pc_lon>>>>

\* get_latlon on a frame: latitude and longitude come out as <<x>> or NaN
get_latlon(df) ==
    LET merged == { [postalcode |-> NormalizePostcode(r.postalcode),
                     pc_lat |-> PostcodeJoin(NormalizePostcode(r.postalcode))[1],
                     pc_lon |-> PostcodeJoin(NormalizePostcode(r.postalcode))[2]]
                    @@ r : r \in df }
        lat_all_null == \A r \in merged : isna(r.pc_lat)
        lon_all_null == \A r \in merged : isna(r.pc_lon)
        mask(r) == r.latitude = 0 /\ r.longitude = 0
                       /\ IsPyFalse(lat_all_null) /\ IsPyFalse(lon_all_null)
    IN  { IF mask(r) THEN TempLL(r) @@ r
          ELSE [latitude |-> <<r.latitude>>, longitude |-> <<r.longitude>>] @@ r :
            r \in merged }

\* get_peril without its third replacement
get_peril_TwoGroups(s) ==
    LET s1 == IF s = PERIL_GROUP_ALL THEN ALL_PERILS ELSE s
        s2 == IF s1 = PERIL_GROUP_FLOOD_NO_SURGE
              THEN FLUVIAL_ID \o SEMI \o PLUVIAL_ID ELSE s1
    IN  s2

\* get_peril: the locperilscovered cell after the three replacements
get_peril(s) ==
    LET s1 == IF s = PERIL_GROUP_ALL THEN ALL_PERILS ELSE s
        s2 == IF s1 = PERIL_GROUP_FLOOD_NO_SURGE
              THEN FLUVIAL_ID \o SEMI \o PLUVIAL_ID ELSE s1
        s3 == IF s2 = PERIL_GROUP_WIND_SURGE THEN COASTAL_ID ELSE s2
    IN  s3

\* ExpandKeys with the peril id compared to the whole locperilscovered
\* cell instead of searched in it
ExpandKeys_ExactMatch(df) ==
    { k \in { [coveragetype_id |-> c, peril_id |-> p] @@ r :
                r \in df, p \in perils, c \in coverages } :
        k.locperilscovered = k.peril_id }

\* the loop over self.perils and self.coverages: one row per pair whose
\* peril id occurs in locperilscovered
ExpandKeys(df) ==
    { k \in { [coveragetype_id |-> c, peril_id |-> p] @@ r :
                r \in df, p \in perils, c \in coverages } :
        Contains(k.locperilscovered, k.peril_id) }

-----------------------------------------------------------------------------
(* process_locations, the keys frame *)

\* SuppressRow with numberofstoreys cleared for flat contents only, the bi
\* alternative of the condition dropped
SuppressRow_StoreysKeptForBi(k) ==
    LET cov == k.coveragetype_id
        cat == k.building_cat
        floors == IF cov # COVERAGE_CONTENTS \/ (cat # "flat" /\ cat # "nonres")
                  THEN -9999 ELSE k.floorsoccupied[1]
        bipoi_cat == IF cov # COVERAGE_BI THEN <<-9999>> ELSE k.bipoi_cat
        storeys == IF cat = "flat" /\ cov = COVERAGE_CONTENTS
                   THEN 0 ELSE k.numberofstoreys
        mcm == IF cov = COVERAGE_BI /\ cat = "nonres" THEN <<0>> ELSE k.mcm_code
        ptype == IF cov = COVERAGE_BI THEN ALL_PERILS ELSE k.peril_id
    IN  [floorsoccupied |-> floors,
         bipoi_cat |-> IF isna(bipoi_cat) THEN -1 ELSE bipoi_cat[1],
         numberofstoreys |-> storeys,
         mcm_code |-> IF isna(mcm) THEN -1 ELSE mcm[1],
         peril_type |-> ptype] @@ k

\* SuppressRow without the mcm_code line for bi keys of nonres rows
SuppressRow_McmKeptForBi(k) ==
    LET cov == k.coveragetype_id
        cat == k.building_cat
        floors == IF cov # COVERAGE_CONTENTS \/ (cat # "flat" /\ cat # "nonres")
                  THEN -9999 ELSE k.floorsoccupied[1]
        bipoi_cat == IF cov # COVERAGE_BI THEN <<-9999>> ELSE k.bipoi_cat
        storeys == IF cov = COVERAGE_BI \/ (cat = "flat" /\ cov = COVERAGE_CONTENTS)
                   THEN 0 ELSE k.numberofstoreys
        ptype == IF cov = COVERAGE_BI THEN ALL_PERILS ELSE k.peril_id
    IN  [floorsoccupied |-> floors,
         bipoi_cat |-> IF isna(bipoi_cat) THEN -1 ELSE bipoi_cat[1],
         numberofstoreys |-> storeys,
         mcm_code |-> IF isna(k.mcm_code) THEN -1 ELSE k.mcm_code[1],
         peril_type |-> ptype] @@ k

\* "remove values that would screw up lookup", the peril_type column and
\* the fillna/astype lines that follow
SuppressRow(k) ==
    LET cov == k.coveragetype_id
        cat == k.building_cat
        floors == IF cov # COVERAGE_CONTENTS \/ (cat # "flat" /\ cat # "nonres")
                  THEN -9999 ELSE k.floorsoccupied[1]
        bipoi_cat == IF cov # COVERAGE_BI THEN <<-9999>> ELSE k.bipoi_cat
        storeys == IF cov = COVERAGE_BI \/ (cat = "flat" /\ cov = COVERAGE_CONTENTS)
                   THEN 0 ELSE k.numberofstoreys
        mcm == IF cov = COVERAGE_BI /\ cat = "nonres" THEN <<0>> ELSE k.mcm_code
        ptype == IF cov = COVERAGE_BI THEN ALL_PERILS ELSE k.peril_id
    IN  [floorsoccupied |-> floors,
         bipoi_cat |-> IF isna(bipoi_cat) THEN -1 ELSE bipoi_cat[1],
         numberofstoreys |-> storeys,
         mcm_code |-> IF isna(mcm) THEN -1 ELSE mcm[1],
         peril_type |-> ptype] @@ k

\* merge(right=self.vulnerability_df, how="left"): the vulnerability_id
\* cell, <<id>> or NaN when no row of the table matches
VulnerabilityJoin(k) ==
    LET hit == { t \in vulnerability_df :
                    /\ t.mcm_code = k.mcm_code
                    /\ t.coveragetype_id = k.coveragetype_id
                    /\ t.peril_type = k.peril_type
                    /\ t.user_vulnerability_id = k.user_vulnerability_id }
    IN  IF hit = {} THEN NaN ELSE <<(CHOOSE t \in hit : TRUE).vulnerability_id>>

\* the vulnerability merge with its missing cells filled with the
\* floorsoccupied sentinel
VulnerabilityId_OtherSentinel(k) ==
    IF isna(VulnerabilityJoin(k)) THEN -9999 ELSE VulnerabilityJoin(k)[1]

\* merge(right=self.vulnerability_df, how="left") and fillna(-1)
VulnerabilityId(k) ==
    IF isna(VulnerabilityJoin(k)) THEN -1 ELSE VulnerabilityJoin(k)[1]

\* np.floor(x * 3600) of a coordinate in half arc-seconds
FloorId(x) == IF isna(x) THEN NaN ELSE <<x[1] \div 2>>

\* get_latlon_ids
get_latlon_ids(k) ==
    [lat_id |-> FloorId(k.latitude), lon_id |-> FloorId(k.longitude)] @@ k

\* NarrowAtRisk with the second filter testing lon_id against the keys'
\* lat_ids
NarrowAtRisk_LonByLatIds(grid, keys) ==
    LET by_lat == { g \in grid : <<g.lat_id>> \in { k.lat_id : k \in keys } }
    IN  { g \in by_lat : <<g.lon_id>> \in { k.lat_id : k \in keys } }

\* "filter the self.at_risk_df to make the merge less expensive": the value
\* assigned to self.at_risk_df
NarrowAtRisk(grid, keys) ==
    LET by_lat == { g \in grid : <<g.lat_id>> \in { k.lat_id : k \in keys } }
    IN  { g \in by_lat : <<g.lon_id>> \in { k.lon_id : k \in keys } }

\* the inner merge with self.at_risk_df and keys_df["at_risk"]
AtRisk(k, grid) ==
    \E g \in grid : /\ g.peril_id = k.peril_id
                    /\ <<g.lat_id>> = k.lat_id
                    /\ <<g.lon_id>> = k.lon_id

\* StatusRules with the two area-peril rules requiring both ids missing
StatusRules_BothMissing(vulnerability_id, lat_id, lon_id, at_risk) ==
    << <<vulnerability_id # -1 /\ notna(lat_id) /\ notna(lon_id) /\ at_risk,
         <<STATUS_SUCCESS, MSG_SUCCESS>> >>,
       <<vulnerability_id # -1 /\ notna(lat_id) /\ notna(lon_id) /\ ~at_risk,
         <<STATUS_NOTATRISK, MSG_NOTATRISK>> >>,
       <<vulnerability_id = -1 /\ notna(lat_id) /\ notna(lon_id),
         <<STATUS_FAIL_V, MSG_FAIL_V>> >>,
       <<vulnerability_id # -1 /\ (isna(lat_id) /\ isna(lon_id)),
         <<STATUS_FAIL_AP, MSG_FAIL_AP>> >>,
       <<vulnerability_id = -1 /\ (isna(lat_id) /\ isna(lon_id)),
         <<STATUS_FAIL, MSG_FAIL>> >> >>

\* StatusRules with the success assignment not testing vulnerability_id
\* and made last
StatusRules_SuccessLast(vulnerability_id, lat_id, lon_id, at_risk) ==
    << <<vulnerability_id # -1 /\ notna(lat_id) /\ notna(lon_id) /\ ~at_risk,
         <<STATUS_NOTATRISK, MSG_NOTATRISK>> >>,
       <<vulnerability_id = -1 /\ notna(lat_id) /\ notna(lon_id),
         <<STATUS_FAIL_V, MSG_FAIL_V>> >>,
       <<vulnerability_id # -1 /\ (isna(lat_id) \/ isna(lon_id)),
         <<STATUS_FAIL_AP, MSG_FAIL_AP>> >>,
       <<vulnerability_id = -1 /\ (isna(lat_id) \/ isna(lon_id)),
         <<STATUS_FAIL, MSG_FAIL>> >>,
       <<notna(lat_id) /\ notna(lon_id) /\ at_risk,
         <<STATUS_SUCCESS, MSG_SUCCESS>> >> >>

\* "sort keys status": the five conditional assignments of
\* ["status", "message"], in order
StatusRules(vulnerability_id, lat_id, lon_id, at_risk) ==
    << <<vulnerability_id # -1 /\ notna(lat_id) /\ notna(lon_id) /\ at_risk,
         <<STATUS_SUCCESS, MSG_SUCCESS>> >>,
       <<vulnerability_id # -1 /\ notna(lat_id) /\ notna(lon_id) /\ ~at_risk,
         <<STATUS_NOTATRISK, MSG_NOTATRISK>> >>,
       <<vulnerability_id = -1 /\ notna(lat_id) /\ notna(lon_id),
         <<STATUS_FAIL_V, MSG_FAIL_V>> >>,
       <<vulnerability_id # -1 /\ (isna(lat_id) \/ isna(lon_id)),
         <<STATUS_FAIL_AP, MSG_FAIL_AP>> >>,
       <<vulnerability_id = -1 /\ (isna(lat_id) \/ isna(lon_id)),
         <<STATUS_FAIL, MSG_FAIL>> >> >>

\* a status or message cell no assignment has filled
NO_STATUS == "NaN"

\* the status and message columns after the five assignments
SortKeysStatus(k) ==
    LET cell == ApplyRules(
                    StatusRules(k.vulnerability_id, k.lat_id, k.lon_id, k.at_risk),
                    1, NaN)
    IN  [status |-> IF isna(cell) THEN NO_STATUS ELSE cell[1][1],
         message |-> IF isna(cell) THEN NO_STATUS ELSE cell[1][2]] @@ k

\* the body of the try block of format_keys_df for one success row: the
\* exception it raises ("none" when it completes) and the catchment id
SampleCatchment(k) ==
    LET pixel == RasterIndex(k.longitude[1], k.latitude[1])
        read == RasterRead(pixel)
    IN  IF isna(read) THEN [exc |-> "IndexError", catchment_id |-> -1]
        ELSE IF read[1] < 0 THEN [exc |-> "IndexError", catchment_id |-> -1]
        ELSE [exc |-> "none", catchment_id |-> read[1]]

\* an except clause naming another exception class
Caught_KeyError(exc) == exc = "KeyError"

\* the except clause of format_keys_df
Caught(exc) == exc = "IndexError"

SUPPORTED_COVERAGE_TYPES_BY_ID(id) ==
    CASE id = COVERAGE_BUILDINGS -> "buildings"
      [] id = COVERAGE_CONTENTS -> "contents"
      [] id = COVERAGE_BI -> "bi"

\* json.dumps({...}) of format_keys_df
ModelData(k, catchment_id) ==
    [lat_id |-> k.lat_id[1],
     lon_id |-> k.lon_id[1],
     catchment_id |-> catchment_id,
     vulnerability_id |-> k.vulnerability_id,
     user_vulnerability_id |-> k.user_vulnerability_id,
     peril_id |-> k.peril_id,
     coverage |-> SUPPORTED_COVERAGE_TYPES_BY_ID(k.coverage_type),
     coverage_type_id |-> k.coverage_type,
     loc_number |-> k.locnumber,
     port_number |-> k.portnumber,
     acc_number |-> k.accnumber]

\* which rows format_keys_df samples
IsSampled(k) == k.status = STATUS_SUCCESS

\* format_keys_row with an except clause that leaves status and message
\* as they were
format_keys_row_ExceptPass(k) ==
    LET base == [catchment_id |-> -1, area_peril_id |-> -1, model_data |-> <<>>,
                 escaped |-> "none"] @@ k
        out == SampleCatchment(k)
    IN  IF ~IsSampled(k) THEN base
        ELSE IF out.exc = "none"
             THEN [catchment_id |-> out.catchment_id,
                   model_data |-> <<ModelData(k, out.catchment_id)>>] @@ base
        ELSE IF Caught(out.exc) THEN base
        ELSE [escaped |-> out.exc] @@ base

\* format_keys_df on one row; escaped names an exception that leaves the
\* function from this row, "none" otherwise
format_keys_row(k) ==
    LET base == [catchment_id |-> -1, area_peril_id |-> -1, model_data |-> <<>>,
                 escaped |-> "none"] @@ k
        out == SampleCatchment(k)
    IN  IF ~IsSampled(k) THEN base
        ELSE IF out.exc = "none"
             THEN [catchment_id |-> out.catchment_id,
                   model_data |-> <<ModelData(k, out.catchment_id)>>] @@ base
        ELSE IF Caught(out.exc)
             THEN [status |-> OASIS_KEYS_FL, message |-> MSG_NO_CATCHMENT] @@ base
        ELSE [escaped |-> out.exc] @@ base

\* the frame process_locations holds before the key expansion
EnrichFrame(batch) ==
    LET classified == { ClassifyRow(NormalizeRow(r)) : r \in batch }
        located == get_latlon(classified)
    IN  { [locperilscovered |-> get_peril(r.locperilscovered)] @@ r :
            r \in located }

\* keys_df up to the vulnerability merge and the lat/lon ids
CandidateKeys(batch) ==
    { LET s == SuppressRow(k)
      IN  get_latlon_ids([vulnerability_id |-> VulnerabilityId(s)] @@ s) :
        k \in ExpandKeys(EnrichFrame(batch)) }

\* keys_df with at_risk, status and message: cands is keys_df after the
\* lat/lon ids, grid the narrowed self.at_risk_df
ClassifiedKeys(cands, grid) ==
    { LET a == [at_risk |-> AtRisk(k, grid),
                coverage_type |-> k.coveragetype_id] @@ k
      IN  SortKeysStatus(a) : k \in cands }

\* ResolveKeys with the at-risk merge made against the grid as the call
\* found it and the rows of the batch's ids dropped from self.at_risk_df
\* instead of kept
ResolveKeys_DropsBatchRows(cands, grid) ==
    LET keys == { format_keys_row(k) : k \in ClassifiedKeys(cands, grid) }
    IN  [raised |-> "none", at_risk_df |-> grid \ NarrowAtRisk(grid, cands),
         keys_df |-> keys]

\* process_locations from the narrowing of self.at_risk_df on
ResolveKeys(cands, grid) ==
    LET Finish(narrowed, keys) ==
            LET escaped == { k.escaped : k \in keys } \ {"none"}
            IN  IF escaped # {}
                THEN [raised |-> CHOOSE e \in escaped : TRUE,
                      at_risk_df |-> narrowed, keys_df |-> {}]
                ELSE [raised |-> "none", at_risk_df |-> narrowed,
                      keys_df |-> keys]
        Sample(narrowed) ==
            Finish(narrowed,
                   { format_keys_row(k) : k \in ClassifiedKeys(cands, narrowed) })
    IN  Sample(NarrowAtRisk(grid, cands))

\* process_locations(batch) on a lookup whose self.at_risk_df is grid:
\* the exception it ends with ("none" when it returns), self.at_risk_df
\* afterwards, and keys_df as format_keys_df leaves it
process_locations(batch, grid) ==
    IF \E r \in batch : isna(get_floors_occupied(NormalizeRow(r).floorsoccupied))
    THEN [raised |-> "ValueError", at_risk_df |-> grid, keys_df |-> {}]
    ELSE ResolveKeys(CandidateKeys(batch), grid)

OUTPUT_COLUMNS ==
    {"loc_id", "peril_id", "coverage_type", "vulnerability_id", "status",
     "message", "model_data", "catchment_id", "lat_id", "lon_id",
     "area_peril_id"}

\* the projection process_locations returns
Returned(keys) == { [c \in OUTPUT_COLUMNS |-> k[c]] : k \in keys }

-----------------------------------------------------------------------------
(* Location files *)

\* the number of process_locations calls a behaviour makes on one lookup
MaxCalls == 2

\* a row of a location file; the columns left out (constructioncode,
\* firstfloorheight, firstfloorheightunit, locuserdef1) take their defaults
Location(id, lat, lon, postalcode, covered_perils, occupancy, buildingtype, storeys, yearbuilt) ==
    [loc_id |-> id, locnumber |-> id, accnumber |-> 1, portnumber |-> 1,
     latitude |-> <<lat>>, longitude |-> <<lon>>, postalcode |-> postalcode,
     locperilscovered |-> covered_perils, occupancycode |-> occupancy,
     buildingtype |-> buildingtype, numberofstoreys |-> storeys,
     yearbuilt |-> yearbuilt, floorsoccupied |-> <<"1", ";", "2">>,
     bipoi |-> <<400>>]

\* a location file of five rows, processed in batches
Dataset ==
    { Location(1, 10, 20, <<"x", "y", "9">>, PERIL_GROUP_ALL, 1050, 1, 2, 1990),
      Location(2, 11, 30, <<>>, PLUVIAL_ID \o SEMI \o COASTAL_ID, 1100, 0, 0, 0),
      Location(3, 0, 0, <<"a", "b", "1", " ", "2", "c", "d">>,
               FLUVIAL_ID \o SEMI \o COASTAL_ID, 1052, 0, 0, 1950),
      Location(4, 26, 20, <<"n", "o">>, PLUVIAL_ID, 1200, 0, 3, 0),
      Location(5, 10, 20, <<>>, <<"W", "T", "C">>, 1000, 2, 0, 1990) }

PerilInputs ==
    { PERIL_GROUP_ALL, PERIL_GROUP_FLOOD_NO_SURGE, PERIL_GROUP_WIND_SURGE,
      FLUVIAL_ID, PLUVIAL_ID \o SEMI \o COASTAL_ID, <<"W", "T", "C">>, <<>>,
      <<"X">> \o FLUVIAL_ID \o <<"Y">> }

\* <<occupancycode, buildingtype, numberofstoreys, yearbuilt>>
BuildingInputs ==
    { <<1050, 1, 2, 1990>>, <<1052, 0, 0, 1950>>, <<1100, 0, 0, 0>>,
      <<1200, 0, 3, 0>>, <<1000, 0, 0, 0>>, <<1000, 5, 1, 1990>>,
      <<1070, 0, 2, 1990>> }

\* <<latitude, longitude, postalcode>>
PlaceInputs ==
    { <<10, 20, <<"x", "y", "9">>>>,
      <<0, 0, <<"a", "b", "1", " ", "2", "c", "d">>>>,
      <<0, 0, <<"z", "z">>>>,
      <<26, 20, <<>>>>,
      <<-3, 30, <<"X", "Y", "9">>>> }

\* location files of one row
SingleLocations ==
    { Location(1, pl[1], pl[2], pl[3], pe, b[1], b[2], b[3], b[4]) :
        pl \in PlaceInputs, pe \in PerilInputs, b \in BuildingInputs }

\* a location file of three rows: two supplied with latitude = longitude
\* = 0, one with a postcode the centroid table lacks and one with a
\* postcode it holds, and a located row whose postcode it holds
ZeroDataset ==
    { Location(1, 0, 0, <<"z", "z">>, PERIL_GROUP_ALL, 1050, 1, 2, 1990),
      Location(2, 10, 20, <<"x", "y", "9">>, FLUVIAL_ID, 1050, 1, 2, 1990),
      Location(3, 0, 0, <<"a", "b", "1", " ", "2", "c", "d">>, COASTAL_ID,
               1100, 0, 0, 0) }

\* a location file of three rows: a row that resolves, a row whose
\* floorsoccupied is not a list of integers, and a row no building-category
\* rule matches
FaultyDataset ==
    { Location(1, 10, 20, <<>>, PERIL_GROUP_ALL, 1050, 1, 2, 1990),
      [Location(2, 10, 20, <<>>, FLUVIAL_ID, 1050, 1, 2, 1990)
          EXCEPT !.floorsoccupied = <<"1", ";", "x">>],
      Location(3, 26, 20, <<>>, PLUVIAL_ID, 1070, 0, 2, 1990) }

Datasets ==
    {Dataset, ZeroDataset, FaultyDataset} \cup { {l} : l \in SingleLocations }

LocIds(batch) == { r.loc_id : r \in batch }

NoRow == [loc_id |-> 0]

-----------------------------------------------------------------------------
(* The lookup object under a sequence of process_locations calls *)

Init ==
    /\ dataset \in Datasets
    /\ at_risk_df = AtRiskGrid
    /\ loc_df = {}
    /\ keys_df = {}
    /\ prev_loc_df = {}
    /\ prev_keys = {}
    /\ acc_keys = {}
    /\ covered = {}
    /\ disjoint = TRUE
    /\ calls = 0
    /\ raised = "none"
    /\ row = NoRow
    /\ stage = "lookup"

\* one call of process_locations (or process_locations_multiproc) on the
\* lookup object, with a non-empty batch of the location file
ProcessLocations(batch) ==
    /\ stage = "lookup"
    /\ calls < MaxCalls
    /\ \E res \in {process_locations(batch, at_risk_df)} :
           /\ at_risk_df' = res.at_risk_df
           /\ keys_df' = res.keys_df
           /\ raised' = res.raised
           /\ acc_keys' = acc_keys \cup Returned(res.keys_df)
    /\ loc_df' = batch
    /\ prev_loc_df' = loc_df
    /\ prev_keys' = Returned(keys_df)
    /\ disjoint' = (disjoint /\ LocIds(batch) \cap covered = {})
    /\ covered' = covered \cup LocIds(batch)
    /\ calls' = calls + 1
    /\ UNCHANGED <<dataset, row, stage>>

Next == \E batch \in (SUBSET dataset) \ {{}} : ProcessLocations(batch)

Spec == Init /\ [][Next]_vars

-----------------------------------------------------------------------------
(* Properties of the lookup under Spec *)

\* what one process_locations call over the whole location file returns on
\* a freshly constructed lookup
WholeFileKeys == Returned(process_locations(dataset, AtRiskGrid).keys_df)

\* C1: when the calls made so far were over pairwise disjoint batches that
\* together cover the location file, the union of the key sets they
\* returned is the key set of a single call over the whole file.
C1_SplitEqualsWhole ==
    (disjoint /\ covered = LocIds(dataset)) => acc_keys = WholeFileKeys

\* C2: after any sequence of calls the at-risk grid the lookup holds is the
\* grid it was constructed with (the other reference tables are never
\* assigned by process_locations).
C2_GridUnchanged == at_risk_df = AtRiskGrid

FiveStatuses ==
    {STATUS_SUCCESS, STATUS_NOTATRISK, STATUS_FAIL, STATUS_FAIL_V, STATUS_FAIL_AP}

\* C4: every returned key carries one of the five statuses, and a key with
\* vulnerability_id = -1 has status fail_v or fail.
C4_StatusTotal ==
    \A k \in Returned(keys_df) :
        /\ k.status \in FiveStatuses
        /\ k.vulnerability_id = -1 => k.status \in {STATUS_FAIL_V, STATUS_FAIL}

C4_Witness ==
    /\ \E k \in keys_df : k.vulnerability_id = -1 /\ k.status = STATUS_FAIL_V
    /\ \E k \in keys_df : k.vulnerability_id # -1 /\ k.status = STATUS_FAIL
    /\ \E k \in keys_df : k.status = STATUS_SUCCESS
    /\ \E k \in keys_df : k.status = STATUS_NOTATRISK

\* C6: when the last two calls were given the same batch, they returned the
\* same set of keys.
C6_SameBatchSameKeys ==
    (calls >= 2 /\ prev_loc_df = loc_df) => prev_keys = Returned(keys_df)

C6_Witness ==
    /\ calls >= 2
    /\ prev_loc_df = loc_df
    /\ Cardinality(loc_df) >= 2
    /\ at_risk_df # AtRiskGrid
    /\ \E k \in keys_df : k.status = STATUS_SUCCESS
    /\ \E k \in keys_df : k.status = STATUS_NOTATRISK

KeysOf(r) == { k \in keys_df : k.loc_id = r.loc_id }

\* the perils whose id occurs in the location's resolved locperilscovered
CoveredPerils(r) ==
    { p \in perils : Contains(get_peril(NormalizeRow(r).locperilscovered), p) }

\* C7: each location of the batch has at most 9 keys, three for each peril
\* id that occurs in its resolved locperilscovered string.
C7_KeyCount ==
    raised = "none" =>
        \A r \in loc_df :
            /\ Cardinality(KeysOf(r)) <= 9
            /\ Cardinality(KeysOf(r)) = 3 * Cardinality(CoveredPerils(r))
            /\ \A p \in CoveredPerils(r) :
                   { k.coverage_type : k \in { x \in KeysOf(r) : x.peril_id = p } }
                       = coverages

C7_Witness ==
    /\ raised = "none"
    /\ \E r \in loc_df : Cardinality(KeysOf(r)) = 9
    /\ \E r \in loc_df : Cardinality(KeysOf(r)) = 3
    /\ \E r \in loc_df : Cardinality(KeysOf(r)) = 0

\* C8: every key of coverage bi has floorsoccupied = -9999 and
\* numberofstoreys = 0.
C8_BiSuppressed ==
    \A k \in keys_df :
        k.coverage_type = COVERAGE_BI =>
            k.floorsoccupied = -9999 /\ k.numberofstoreys = 0

C8_Witness ==
    \E r \in loc_df : \E k \in KeysOf(r) :
        /\ k.coverage_type = COVERAGE_BI
        /\ k.building_cat = NO_CAT
        /\ r.numberofstoreys = 2
        /\ get_floors_occupied(r.floorsoccupied) = <<1>>

\* the centroid of a raw postal code: <<pc_lat, pc_lon>>, NaN when absent
Centroid(postalcode) == PostcodeJoin(NormalizePostcode(postalcode))

\* C10: a location supplied with latitude = longitude = 0 whose normalized
\* postal code has a centroid gets the centroid's coordinates; a location
\* with a non-zero latitude or longitude keeps the supplied ones.
C10_PostcodeFallback ==
    \A r \in loc_df : \A k \in KeysOf(r) :
        IF r.latitude = <<0>> /\ r.longitude = <<0>>
        THEN notna(Centroid(r.postalcode)[1]) =>
                 /\ k.latitude = Centroid(r.postalcode)[1]
                 /\ k.longitude = Centroid(r.postalcode)[2]
        ELSE k.latitude = r.latitude /\ k.longitude = r.longitude

\* the rows of the batch supplied with latitude = longitude = 0 whose
\* normalized postal code has no centroid
ZeroUnmatched ==
    { r \in loc_df : /\ r.latitude = <<0>> /\ r.longitude = <<0>>
                     /\ isna(Centroid(r.postalcode)[1]) }

\* C11: the keys of a location supplied with (0, 0) and without a centroid
\* keep (0, 0), have lat_id = lon_id = 0, and are classified with the
\* coordinates defined: fail_v without a vulnerability, otherwise by the
\* at-risk membership of (peril_id, 0, 0) - notatrisk, or success (fail with
\* the catchment message once sampled) - never fail_ap or the table's fail.
C11_ZeroKeepsDefinedIds ==
    \A r \in ZeroUnmatched : \A k \in KeysOf(r) :
        /\ k.latitude = <<0>> /\ k.longitude = <<0>>
        /\ k.lat_id = <<0>> /\ k.lon_id = <<0>>
        /\ k.at_risk = (\E g \in at_risk_df :
                           g.peril_id = k.peril_id /\ g.lat_id = 0 /\ g.lon_id = 0)
        /\ k.vulnerability_id = -1 =>
               k.status = STATUS_FAIL_V /\ k.message = MSG_FAIL_V
        /\ (k.vulnerability_id # -1 /\ ~k.at_risk) =>
               k.status = STATUS_NOTATRISK /\ k.message = MSG_NOTATRISK
        /\ (k.vulnerability_id # -1 /\ k.at_risk) =>
               \/ k.status = STATUS_SUCCESS
               \/ k.status = STATUS_FAIL /\ k.message = MSG_NO_CATCHMENT

C11_Witness ==
    /\ \E r \in ZeroUnmatched : \E k, j \in KeysOf(r) :
           /\ k.vulnerability_id # -1 /\ k.at_risk
           /\ j.vulnerability_id # -1 /\ ~j.at_risk
    /\ \E r \in loc_df \ ZeroUnmatched : notna(Centroid(r.postalcode)[1])
    /\ \E r \in loc_df \ ZeroUnmatched :
           r.latitude = <<0>> /\ r.longitude = <<0>>

\* the keys the last call returned for the locations other than r
KeysOfOthers(r) == { k \in Returned(keys_df) : k.loc_id # r.loc_id }

\* C12: no call raises, and on a freshly constructed lookup the keys of the
\* other locations of a batch are those of the batch without the location.
C12_RowFailureNotFatal ==
    /\ raised = "none"
    /\ calls = 1 =>
           \A r \in loc_df :
               KeysOfOthers(r) =
                   Returned(process_locations(loc_df \ {r}, AtRiskGrid).keys_df)

\* the mcm_code cell get_mcm_code_residential or
\* get_mcm_code_non_residential leaves on the location of key k: <<code>>,
\* or NaN when the MCM merge found no match
JoinedMcmCode(k) ==
    LET r == CHOOSE r \in loc_df : r.loc_id = k.loc_id
    IN  ClassifyRow(NormalizeRow(r)).mcm_code

C23_NarrowingKeepsOutcome ==
    [][\A k \in keys_df' :
           k.at_risk <=> \E g \in at_risk_df : /\ g.peril_id = k.peril_id
                                               /\ <<g.lat_id>> = k.lat_id
                                               /\ <<g.lon_id>> = k.lon_id]_vars

C23_Witness ==
    /\ calls >= 1
    /\ at_risk_df # AtRiskGrid
    /\ at_risk_df # {}
    /\ \E k \in keys_df : k.at_risk
    /\ \E k \in keys_df : ~k.at_risk /\ notna(k.lat_id) /\ notna(k.lon_id)

\* C24: on every returned key, status success, catchment_id >= 0 and a
\* non-empty model_data go together; every other key has catchment_id = -1
\* and an empty model_data; area_peril_id is -1 on every key.
C24_SuccessHasCatchment ==
    \A k \in Returned(keys_df) :
        /\ (k.status = STATUS_SUCCESS) <=> (k.catchment_id >= 0)
        /\ (k.status = STATUS_SUCCESS) <=> (k.model_data # <<>>)
        /\ k.status # STATUS_SUCCESS => k.catchment_id = -1 /\ k.model_data = <<>>
        /\ k.area_peril_id = -1

C24_Witness ==
    /\ \E k \in Returned(keys_df) :
           /\ k.status = STATUS_SUCCESS
           /\ k.catchment_id > 0
           /\ k.model_data # <<>>
           /\ k.model_data[1].catchment_id = k.catchment_id
    /\ \E k \in Returned(keys_df) :
           /\ k.status = OASIS_KEYS_FL
           /\ k.message = MSG_NO_CATCHMENT
           /\ k.catchment_id = -1
    /\ \E k \in Returned(keys_df) : k.status = STATUS_NOTATRISK

\* the values the classification derives for location r, before suppression
Derived(r) == ClassifyRow(NormalizeRow(r))

\* a derived cell as the keys frame holds it: -1 when missing
FilledCell(x) == IF isna(x) THEN -1 ELSE x[1]

\* C20: a key keeps the derived floorsoccupied when its coverage is contents
\* and its category flat or nonres and has -9999 otherwise; keeps the derived
\* bipoi_cat when its coverage is bi and has -9999 otherwise; has
\* numberofstoreys 0 when its coverage is bi or it is a flat's contents key
\* and the derived value otherwise; has mcm_code 0 when it is a nonres bi key
\* and the derived value otherwise; has peril_type fluvial;pluvial;coastal
\* when its coverage is bi and its own peril_id otherwise.
C20_SuppressionRules ==
    \A r \in loc_df : \A k \in KeysOf(r) :
        LET d == Derived(r)
            cov == k.coverage_type
            cat == d.building_cat
        IN  /\ k.floorsoccupied =
                   IF cov = COVERAGE_CONTENTS /\ cat \in {"flat", "nonres"}
                   THEN d.floorsoccupied[1] ELSE -9999
            /\ k.bipoi_cat =
                   IF cov = COVERAGE_BI THEN FilledCell(d.bipoi_cat) ELSE -9999
            /\ k.numberofstoreys =
                   IF cov = COVERAGE_BI \/ (cat = "flat" /\ cov = COVERAGE_CONTENTS)
                   THEN 0 ELSE d.numberofstoreys
            /\ k.mcm_code =
                   IF cov = COVERAGE_BI /\ cat = "nonres"
                   THEN 0 ELSE FilledCell(d.mcm_code)
            /\ k.peril_type = IF cov = COVERAGE_BI THEN ALL_PERILS ELSE k.peril_id

C20_Witness ==
    /\ \E r \in loc_df : \E k \in KeysOf(r) :
           /\ k.coverage_type = COVERAGE_CONTENTS
           /\ Derived(r).building_cat = "flat"
           /\ Derived(r).numberofstoreys # 0
           /\ k.floorsoccupied = 1
           /\ k.numberofstoreys = 0
    /\ \E r \in loc_df : \E k \in KeysOf(r) :
           /\ k.coverage_type = COVERAGE_BI
           /\ Derived(r).building_cat = "nonres"
           /\ Derived(r).mcm_code \notin {NaN, <<0>>}
           /\ k.mcm_code = 0
           /\ k.bipoi_cat # -9999
    /\ \E r \in loc_df : \E k \in KeysOf(r) :
           /\ k.coverage_type = COVERAGE_BUILDINGS
           /\ k.numberofstoreys = Derived(r).numberofstoreys
           /\ k.numberofstoreys # 0
           /\ k.floorsoccupied = -9999
           /\ k.bipoi_cat = -9999
           /\ k.peril_type = k.peril_id

-----------------------------------------------------------------------------
(* The status classifier and format_keys_df on one key row.  The row is
   drawn from every combination of vulnerability id and coordinates,
   missing coordinates included, and taken through get_latlon_ids, the
   at-risk merge, the status assignments and format_keys_df. *)

\* no lookup call is under way: the lookup's variables keep their initial
\* values
LookupIdle ==
    /\ dataset = {}
    /\ at_risk_df = AtRiskGrid
    /\ loc_df = {}
    /\ keys_df = {}
    /\ prev_loc_df = {}
    /\ prev_keys = {}
    /\ acc_keys = {}
    /\ covered = {}
    /\ disjoint = TRUE
    /\ calls = 0
    /\ raised = "none"

lookup_vars == <<dataset, at_risk_df, loc_df, keys_df, prev_loc_df, prev_keys,
                 acc_keys, covered, disjoint, calls, raised>>

KeyRowInputs ==
    { [loc_id |-> 1, locnumber |-> 1, accnumber |-> 1, portnumber |-> 1,
       user_vulnerability_id |-> 0, peril_id |-> p,
       coverage_type |-> COVERAGE_BUILDINGS, vulnerability_id |-> v,
       latitude |-> la, longitude |-> lo] :
        p \in perils, v \in {-1, 1011},
        la \in {NaN, <<0>>, <<10>>, <<11>>, <<26>>, <<-3>>},
        lo \in {NaN, <<0>>, <<20>>, <<30>>} }

InitKeyRow ==
    /\ LookupIdle
    /\ row \in KeyRowInputs
    /\ stage = "candidate"

\* get_latlon_ids and the at-risk merge on the row
AssignAtRisk ==
    /\ stage = "candidate"
    /\ \E k \in {get_latlon_ids(row)} :
           row' = [at_risk |-> AtRisk(k, NarrowAtRisk(at_risk_df, {k}))] @@ k
    /\ stage' = "located"
    /\ UNCHANGED lookup_vars

\* the five status assignments on the row
SortStatus ==
    /\ stage = "located"
    /\ row' = SortKeysStatus(row)
    /\ stage' = "classified"
    /\ UNCHANGED lookup_vars

\* format_keys_df on the row
FormatKeys ==
    /\ stage = "classified"
    /\ row' = format_keys_row(row)
    /\ stage' = "formatted"
    /\ UNCHANGED lookup_vars

NextKeyRow == AssignAtRisk \/ SortStatus \/ FormatKeys

SpecKeyRow == InitKeyRow /\ [][NextKeyRow]_vars

\* the five-row table: <<status, message>> for (vulnerability valid,
\* coordinates defined, at risk)
StatusTable(vuln_valid, coords_defined, at_risk) ==
    CASE vuln_valid /\ coords_defined /\ at_risk ->
            <<"success", "">>
      [] vuln_valid /\ coords_defined /\ ~at_risk ->
            <<"notatrisk",
              "area-peril and vulnerability valid, but location not exposed to this peril">>
      [] ~vuln_valid /\ coords_defined ->
            <<"fail_v", "area-peril valid, vulnerability invalid">>
      [] vuln_valid /\ ~coords_defined ->
            <<"fail_ap", "vulnerability valid, area-peril invalid">>
      [] ~vuln_valid /\ ~coords_defined ->
            <<"fail", "area-peril and vulnerability invalid">>

\* C3: before raster sampling, the status and message of a candidate are
\* the entry of the five-row table for (vulnerability_id # -1, lat_id and
\* lon_id both defined, at_risk).
C3_StatusTable ==
    stage = "classified" =>
        <<row.status, row.message>> =
            StatusTable(row.vulnerability_id # -1,
                        notna(row.lat_id) /\ notna(row.lon_id),
                        row.at_risk)

C3_Witness ==
    /\ stage = "classified"
    /\ row.status = STATUS_FAIL_AP
    /\ isna(row.lat_id)
    /\ notna(row.lon_id)

\* the pixel format_keys_df reads for a row with defined coordinates
Pixel(k) == RasterRead(RasterIndex(k.longitude[1], k.latitude[1]))

\* C5: format_keys_df leaves the status and message of a row that is not
\* success as they were; a success row whose pixel is negative or
\* unreadable ends fail with the catchment message; no exception leaves.
C5_SamplingOnlySuccess ==
    [][(stage = "classified" /\ stage' = "formatted") =>
          /\ row'.escaped = "none"
          /\ row.status # STATUS_SUCCESS =>
                 /\ row'.status = row.status
                 /\ row'.message = row.message
                 /\ row'.catchment_id = -1
                 /\ row'.model_data = <<>>
          /\ (row.status = STATUS_SUCCESS
                /\ (isna(Pixel(row)) \/ Pixel(row)[1] < 0)) =>
                 /\ row'.status = STATUS_FAIL
                 /\ row'.message = "could not find catchment for lat/lon"
          /\ (row.status = STATUS_SUCCESS
                /\ notna(Pixel(row)) /\ Pixel(row)[1] >= 0) =>
                 /\ row'.status = STATUS_SUCCESS
                 /\ row'.catchment_id = Pixel(row)[1]]_vars

C5_Witness ==
    /\ stage = "formatted"
    /\ row.status = STATUS_FAIL
    /\ row.message = MSG_NO_CATCHMENT
    /\ row.vulnerability_id # -1
    /\ isna(Pixel(row))

-----------------------------------------------------------------------------
(* The binning functions on one location row.  Heights are in 1/10000 of
   their unit and a conversion from feet is rounded down to 1/10000 metre;
   bipoi is in half days. *)

CategoryInputs ==
    {"detached", "semidetached", "terraced", "flat", "bungalow",
     "general_res", "nonres", NO_CAT}

\* the categories get_mcm_code_residential can leave on a mobile home
MobileHomeCategories == {"bungalow", "flat", "terraced", "nonres"}

BipoiInputs ==
    {0, 1, Days(137) - 1, Days(137), Days(183), Days(183) + 1, Days(184),
     Days(228), Days(1049) - 1, Days(1049), Days(2000)}

HeightInputs ==
    {-9990000, -1, 0, 499, 500, 1499, 1500, 2500, 3500, 6499, 6500, 10000,
     13500, 26499, 26500, 90000}

BinRowInputs ==
    { r \in { [bipoi |-> b, building_cat |-> c, firstfloorheight |-> h,
               firstfloorheightunit |-> u, mobilehome_cat |-> m,
               ffh_cat |-> NaN, bipoi_cat |-> NaN] :
                b \in BipoiInputs, c \in CategoryInputs, h \in HeightInputs,
                u \in {1, 2}, m \in BOOLEAN } :
        r.mobilehome_cat => r.building_cat \in MobileHomeCategories }

InitBins ==
    /\ LookupIdle
    /\ row \in BinRowInputs
    /\ stage = "unbinned"

\* get_first_floor_height on the row
GetFirstFloorHeight ==
    /\ stage = "unbinned"
    /\ \E h \in {FirstFloorHeight(row, row.building_cat)} :
           row' = [firstfloorheight |-> h, ffh_cat |-> FfhCat(h)] @@ row
    /\ stage' = "ffh"
    /\ UNCHANGED lookup_vars

\* get_bi_poi on the row
GetBiPoi ==
    /\ stage = "ffh"
    /\ row' = [bipoi_cat |-> get_bi_poi(row.bipoi, row.building_cat)] @@ row
    /\ stage' = "binned"
    /\ UNCHANGED lookup_vars

NextBins == GetFirstFloorHeight \/ GetBiPoi

SpecBins == InitBins /\ [][NextBins]_vars

\* C9: every bipoi >= 0 of a residential-like or nonres row is assigned
\* exactly one bipoi bucket, and every first-floor height >= 0 exactly one
\* ffh bucket.
C9_BinsTotal ==
    stage = "binned" =>
        /\ (row.bipoi >= 0 /\ row.building_cat # NO_CAT) =>
               /\ notna(row.bipoi_cat)
               /\ Cardinality(Buckets(BiPoiRules(row.bipoi, row.building_cat))) = 1
        /\ row.firstfloorheight >= 0 =>
               /\ notna(row.ffh_cat)
               /\ Cardinality(Buckets(FfhRules(row.firstfloorheight))) = 1

-----------------------------------------------------------------------------
(* The constructor: the validation of the user data directory, then the
   loading of the reference tables, then calls of process_locations.  A file
   name is the sequence of its parts; row holds the constructor's locals. *)

USV_PREFIX == <<"user_supplied_vulnerability">>

VSF_PREFIX == <<"vulnerability_scale_factor">>

\* str.startswith(prefix)
StartsWith(f, prefix) ==
    Len(f) >= Len(prefix) /\ SubSeq(f, 1, Len(prefix)) = prefix

\* the names a user data directory may hold
UserDataFiles ==
    { USV_PREFIX \o <<".csv">>,
      USV_PREFIX \o <<"_v2", ".csv">>,
      VSF_PREFIX \o <<".csv">>,
      VSF_PREFIX \o <<"_old", ".csv">>,
      <<"my_">> \o USV_PREFIX \o <<".csv">> }

\* input_usv_filename_list
input_usv_filename_list(listing) ==
    { f \in listing : StartsWith(f, USV_PREFIX) }

\* input_vsf_filename_list
input_vsf_filename_list(listing) ==
    { f \in listing : StartsWith(f, VSF_PREFIX) }

\* the truth value of self.user_data_file_manager, a StaticFileManager
\* object
user_data_file_manager == TRUE

\* the reference tables __init__ loads after the validation
ReferenceTables ==
    {"vulnerability_df", "mcm_res_df", "mcm_nonres_df", "postcode_df",
     "yearbuilt_df", "at_risk_df"}

\* the test of a filename list that raises IOError, with the bound one
\* higher
MoreThanOne_MoreThanTwo(files) == Cardinality(files) > 2

\* the test of a filename list that raises IOError: len(...) > 1
MoreThanOne(files) == Cardinality(files) > 1

InitConstruct ==
    /\ dataset = ZeroDataset
    /\ at_risk_df = {}
    /\ loc_df = {}
    /\ keys_df = {}
    /\ prev_loc_df = {}
    /\ prev_keys = {}
    /\ acc_keys = {}
    /\ covered = {}
    /\ disjoint = TRUE
    /\ calls = 0
    /\ raised = "none"
    /\ \E listing \in SUBSET UserDataFiles :
           row = [os_user_data_dir |-> listing, usv_file |-> {},
                  vsf_file |-> {}, tables |-> {}]
    /\ stage = "validate_usv"

\* "Validate the User Supplied vulnerability file"
ValidateUsv ==
    /\ stage = "validate_usv"
    /\ \E usv \in {IF user_data_file_manager
                   THEN input_usv_filename_list(row.os_user_data_dir) ELSE {}} :
           IF MoreThanOne(usv)
           THEN /\ raised' = "IOError"
                /\ stage' = "aborted"
                /\ row' = row
           ELSE /\ raised' = raised
                /\ stage' = "validate_vsf"
                /\ row' = [row EXCEPT !.usv_file = usv]
    /\ UNCHANGED <<dataset, at_risk_df, loc_df, keys_df, prev_loc_df, prev_keys,
                   acc_keys, covered, disjoint, calls>>

\* "Validate the Vulnerability Scale Factor file"
ValidateVsf ==
    /\ stage = "validate_vsf"
    /\ \E vsf \in {IF user_data_file_manager
                   THEN input_vsf_filename_list(row.os_user_data_dir) ELSE {}} :
           IF MoreThanOne(vsf)
           THEN /\ raised' = "IOError"
                /\ stage' = "aborted"
                /\ row' = row
           ELSE /\ raised' = raised
                /\ stage' = "load"
                /\ row' = [row EXCEPT !.vsf_file = vsf]
    /\ UNCHANGED <<dataset, at_risk_df, loc_df, keys_df, prev_loc_df, prev_keys,
                   acc_keys, covered, disjoint, calls>>

\* the rest of __init__: the reference tables are read and the lookup is
\* ready for process_locations
LoadTables ==
    /\ stage = "load"
    /\ at_risk_df' = AtRiskGrid
    /\ row' = [row EXCEPT !.tables = ReferenceTables]
    /\ stage' = "lookup"
    /\ UNCHANGED <<dataset, loc_df, keys_df, prev_loc_df, prev_keys, acc_keys,
                   covered, disjoint, calls, raised>>

NextConstruct ==
    \/ ValidateUsv
    \/ ValidateVsf
    \/ LoadTables
    \/ \E batch \in (SUBSET dataset) \ {{}} : ProcessLocations(batch)

SpecConstruct == InitConstruct /\ [][NextConstruct]_vars

\* the directory holds more than one file of one of the two kinds
DuplicateOverride ==
    \/ Cardinality(input_usv_filename_list(row.os_user_data_dir)) > 1
    \/ Cardinality(input_vsf_filename_list(row.os_user_data_dir)) > 1

\* C14: with more than one file of a kind the constructor does not get
\* past its validation - no reference table is loaded, no process_locations
\* call is made - and when it stops it has raised IOError; with at most one
\* file of each kind IOError is never raised.
C14_DuplicateOverrideFatal ==
    /\ DuplicateOverride =>
           /\ stage \in {"validate_usv", "validate_vsf", "aborted"}
           /\ row.tables = {} /\ at_risk_df = {}
           /\ calls = 0 /\ keys_df = {}
           /\ (stage = "validate_vsf" =>
                  Cardinality(input_vsf_filename_list(row.os_user_data_dir)) > 1)
    /\ stage = "aborted" => raised = "IOError" /\ DuplicateOverride
    /\ ~DuplicateOverride => raised # "IOError" /\ stage # "aborted"

C14_Witness ==
    /\ stage = "aborted"
    /\ raised = "IOError"
    /\ Cardinality(input_usv_filename_list(row.os_user_data_dir)) = 1
    /\ Cardinality(input_vsf_filename_list(row.os_user_data_dir)) = 2
    /\ row.usv_file # {}
    /\ row.tables = {}

-----------------------------------------------------------------------------
(* The classification engine on one row of a location file: the defaults
   loop, get_mobile_home, the building category and MCM code, and the
   first-floor height.  row.raw is the row as supplied, row.loc the row of
   loc_df. *)

\* the columns of a location row that are not among the 13 defaulted ones
RowIds == [loc_id |-> 1, locnumber |-> 1, accnumber |-> 1, portnumber |-> 1]

\* location rows over the building codes: occupancycode, buildingtype,
\* numberofstoreys and constructioncode
CategoryRows ==
    { [occupancycode |-> occ, buildingtype |-> bt, numberofstoreys |-> st,
       constructioncode |-> cc, yearbuilt |-> 1990] @@ RowIds :
        occ \in {200, 1000, 1050, 1051, 1052, 1053, 1054, 1055, 1056, 1070, 1100},
        bt \in 0..6, st \in {0, 1, 2}, cc \in {5000, 5360} }

\* location rows over the first-floor height (1/10000 of the unit), its
\* unit, and the codes that decide the mobile-home flag and nonres
HeightRows ==
    { [firstfloorheight |-> h, firstfloorheightunit |-> u,
       constructioncode |-> cc, occupancycode |-> occ, buildingtype |-> 1,
       yearbuilt |-> 1990] @@ RowIds :
        h \in {NaN, <<-9990000>>, <<0>>, <<1640>>, <<1641>>, <<10000>>,
               <<3000>>, <<21325>>, <<21326>>, <<100000>>},
        u \in {0, 1, 2}, cc \in {5000, 5360}, occ \in {200, 1050, 1100} }

\* location rows over numberofstoreys, with the codes that give each
\* building category and no category
StoreyRows ==
    { [occupancycode |-> occ, buildingtype |-> bt, numberofstoreys |-> st,
       constructioncode |-> 5000, yearbuilt |-> 1990] @@ RowIds :
        occ \in {1000, 1052, 1053, 1070, 1100}, bt \in {0, 1, 2, 3, 5},
        st \in {-1, 0, 1, 6, 7, 12} }

\* location rows over locperilscovered: absent, empty, the peril groups,
\* peril ids alone, in a list and inside another text, and other perils
PerilRows ==
    { RowIds } \cup
    { [locperilscovered |-> pe, occupancycode |-> 1050, buildingtype |-> 1,
       yearbuilt |-> 1990] @@ RowIds :
        pe \in PerilInputs \cup {COASTAL_ID, <<"A", "A", "1", ";">>,
                                 FLUVIAL_ID \o SEMI \o PERIL_GROUP_WIND_SURGE} }

\* the cells a supplied column of each type may hold: empty or not
SuppliedCells(type) ==
    CASE type = "str" -> {<<>>, <<"7">>}
      [] type = "int" -> {0, 3}
      [] type = "float" -> {NaN, <<0>>, <<5>>}

\* location rows over the presence and emptiness of the defaulted columns:
\* rows with one of the 13 columns, a row with all of them empty, a row with
\* all of them filled, each with and without locuserdef1
FieldRows ==
    LET fields == DOMAIN default_field_values
        typed == UNION { { (f :> v) @@ RowIds : v \in SuppliedCells(default_field_types[f]) } :
                            f \in fields }
        empty == [f \in fields |->
                    CASE default_field_types[f] = "str" -> <<>>
                      [] default_field_types[f] = "int" -> 0
                      [] default_field_types[f] = "float" -> NaN] @@ RowIds
        filled == [f \in fields |->
                    CASE default_field_types[f] = "str" -> <<"7">>
                      [] default_field_types[f] = "int" -> 3
                      [] default_field_types[f] = "float" -> <<5>>] @@ RowIds
        rows == typed \cup {empty, filled}
    IN  rows \cup { [locuserdef1 |-> u] @@ r : r \in rows, u \in {0, 42} }

ClassifyInputs ==
    CategoryRows \cup HeightRows \cup PerilRows \cup FieldRows \cup StoreyRows

InitClassify ==
    /\ LookupIdle
    /\ \E r \in ClassifyInputs : row = [raw |-> r, loc |-> r]
    /\ stage = "raw"

\* the rename of locuserdef1, the defaults loop and the column filter
NormalizeFields ==
    /\ stage = "raw"
    /\ row' = [row EXCEPT !.loc = NormalizeRow(row.raw)]
    /\ stage' = "normalized"
    /\ UNCHANGED lookup_vars

\* get_mobile_home on the row
GetMobileHome ==
    /\ stage = "normalized"
    /\ row' = [row EXCEPT !.loc = [mobilehome_cat |-> get_mobile_home(@)] @@ @]
    /\ stage' = "residence"
    /\ UNCHANGED lookup_vars

\* get_mcm_code_residential up to the MCM merge, on a residential row
AssignBuildingCat ==
    /\ stage = "residence"
    /\ row.loc.occupancycode < 1100
    /\ row' = [row EXCEPT !.loc = [building_cat |-> ResidentialCategory(@)] @@ @]
    /\ stage' = "categorised"
    /\ UNCHANGED lookup_vars

\* get_mcm_code_residential from the MCM merge on
MergeMcmCode ==
    /\ stage = "categorised"
    /\ \E mc \in {get_mcm_code_residential(row.loc)} :
           row' = [row EXCEPT
                      !.loc = [mcm_code |-> mc[1], building_cat |-> mc[2]] @@ @]
    /\ stage' = "coded"
    /\ UNCHANGED lookup_vars

\* get_mcm_code_non_residential on a row that is not residential
GetMcmCodeNonResidential ==
    /\ stage = "residence"
    /\ row.loc.occupancycode >= 1100
    /\ \E mc \in {get_mcm_code_non_residential(row.loc)} :
           row' = [row EXCEPT
                      !.loc = [mcm_code |-> mc[1], building_cat |-> mc[2]] @@ @]
    /\ stage' = "coded"
    /\ UNCHANGED lookup_vars

\* get_number_of_storeys on the row of the recombined loc_df
GetNumberOfStoreys ==
    /\ stage = "coded"
    /\ row' = [row EXCEPT !.loc.numberofstoreys =
                              get_number_of_storeys(@, row.loc.building_cat)]
    /\ stage' = "storeys"
    /\ UNCHANGED lookup_vars

\* get_first_floor_height on the row of loc_df
ClassifyFirstFloorHeight ==
    /\ stage = "storeys"
    /\ \E h \in {FirstFloorHeight(row.loc, row.loc.building_cat)} :
           row' = [row EXCEPT
                      !.loc = [firstfloorheight |-> h, ffh_cat |-> FfhCat(h)] @@ @]
    /\ stage' = "height"
    /\ UNCHANGED lookup_vars

\* get_peril on the row of loc_df
GetPeril ==
    /\ stage = "height"
    /\ row' = [row EXCEPT !.loc.locperilscovered = get_peril(@)]
    /\ stage' = "perils"
    /\ UNCHANGED lookup_vars

\* the loop over self.perils and self.coverages on the row: row.keys is
\* what the loop appends to keys_df for it
ExpandRowKeys ==
    /\ stage = "perils"
    /\ row' = [keys |-> ExpandKeys({row.loc})] @@ row
    /\ stage' = "expanded"
    /\ UNCHANGED lookup_vars

NextClassify ==
    \/ NormalizeFields
    \/ GetMobileHome
    \/ AssignBuildingCat
    \/ MergeMcmCode
    \/ GetMcmCodeNonResidential
    \/ GetNumberOfStoreys
    \/ ClassifyFirstFloorHeight
    \/ GetPeril
    \/ ExpandRowKeys

SpecClassify == InitClassify /\ [][NextClassify]_vars

\* the category the cascade gives: the first rule that matches, in order
CascadeCategory(mobilehome, buildingtype, storeys) ==
    CASE mobilehome -> "bungalow"
      [] ~mobilehome /\ buildingtype = 1 /\ storeys = 1 -> "bungalow"
      [] ~mobilehome /\ buildingtype = 1 /\ storeys # 1 -> "detached"
      [] ~mobilehome /\ buildingtype = 2 -> "semidetached"
      [] ~mobilehome /\ buildingtype \in {3, 4} -> "terraced"
      [] ~mobilehome /\ buildingtype = 5 /\ storeys > 1 -> "detached"
      [] ~mobilehome /\ buildingtype = 5 /\ storeys <= 1 -> "bungalow"
      [] OTHER -> NO_CAT

\* C15: before the MCM join the category of a residential row is flat for
\* occupancycode 1052 or 1055, terraced for 1056, and otherwise what the
\* first matching rule of the cascade gives, unset when none matches.
C15_ResidentialCascade ==
    stage = "categorised" =>
        row.loc.building_cat =
            IF row.loc.occupancycode \in {1052, 1055} THEN "flat"
            ELSE IF row.loc.occupancycode = 1056 THEN "terraced"
            ELSE CascadeCategory(row.loc.mobilehome_cat, row.loc.buildingtype,
                                 row.loc.numberofstoreys)

C15_Witness ==
    /\ stage = "categorised"
    /\ row.loc.occupancycode = 1056
    /\ row.loc.mobilehome_cat
    /\ row.loc.buildingtype = 1
    /\ row.loc.building_cat = "terraced"

\* the bucket of a height in 1/10000 metre: [0,0.05) -> 0, [0.05,0.15) ->
\* 0.05, [0.15,0.25) -> 0.15, [0.25,0.35) -> 0.25, [0.35,0.65) -> 0.35,
\* [0.65,1.35) -> 0.65, [1.35,2.65) -> 1.35, [2.65,oo) -> 2.65
HeightBucket(h) ==
    CASE 0 <= h /\ h < 500 -> <<0>>
      [] 500 <= h /\ h < 1500 -> <<500>>
      [] 1500 <= h /\ h < 2500 -> <<1500>>
      [] 2500 <= h /\ h < 3500 -> <<2500>>
      [] 3500 <= h /\ h < 6500 -> <<3500>>
      [] 6500 <= h /\ h < 13500 -> <<6500>>
      [] 13500 <= h /\ h < 26500 -> <<13500>>
      [] 26500 <= h -> <<26500>>
      [] OTHER -> NaN

\* the height in metres the row is binned on: the supplied height converted
\* when its unit is feet and it is not the sentinel, the default when it is
\* the sentinel
MetresOrDefault(h, unit, mobilehome, cat) ==
    LET m == IF unit = 1 /\ h # -9990000 THEN (h * 3048) \div 10000 ELSE h
    IN  IF m # -9990000 THEN m
        ELSE IF mobilehome \/ cat = "nonres" THEN 6000 ELSE 3000

\* C16: the height is converted from feet only when the unit is feet and
\* the value is not -999, a height still -999 becomes 0.6 on a mobile home
\* or a nonres row and 0.3 otherwise, and ffh_cat is the bucket of the
\* result; an unset height on a mobile home (constructioncode 5360,
\* occupancycode 200) gives 0.35 and a height of 1 foot gives 0.25.
C16_FirstFloorHeight ==
    stage = "height" =>
        LET n == NormalizeRow(row.raw)
            m == MetresOrDefault(n.firstfloorheight, n.firstfloorheightunit,
                                 row.loc.mobilehome_cat, row.loc.building_cat)
        IN  /\ row.loc.firstfloorheight = m
            /\ row.loc.ffh_cat = HeightBucket(m)
            /\ (n.constructioncode = 5360 /\ n.occupancycode = 200
                  /\ n.firstfloorheight = -9990000) => row.loc.ffh_cat = <<3500>>
            /\ (n.firstfloorheight = 10000 /\ n.firstfloorheightunit = 1) =>
                   row.loc.ffh_cat = <<2500>>

C16_Witness ==
    /\ stage = "height"
    /\ {"constructioncode", "occupancycode", "firstfloorheight",
        "firstfloorheightunit"} \subseteq DOMAIN row.raw
    /\ row.raw.constructioncode = 5360
    /\ row.raw.occupancycode = 200
    /\ row.raw.firstfloorheight = <<-9990000>>
    /\ row.raw.firstfloorheightunit = 1
    /\ row.loc.mobilehome_cat
    /\ row.loc.firstfloorheight = 6000
    /\ row.loc.ffh_cat = <<3500>>

\* the covered perils a locperilscovered value stands for: the list of a
\* peril group, the value itself otherwise
PerilGroupList(s) ==
    CASE s = PERIL_GROUP_ALL ->
            <<"O", "R", "F", ";", "O", "S", "F", ";", "W", "S", "S">>
      [] s = PERIL_GROUP_FLOOD_NO_SURGE ->
            <<"O", "R", "F", ";", "O", "S", "F">>
      [] s = PERIL_GROUP_WIND_SURGE -> <<"W", "S", "S">>
      [] OTHER -> s

\* C17: get_peril replaces the three peril-group codes by their peril lists
\* and leaves any other value as it is; a row covered by 'all' gets one key
\* for each of the 9 peril x coverage pairs.
C17_PerilGroups ==
    /\ stage \in {"perils", "expanded"} =>
           row.loc.locperilscovered =
               PerilGroupList(NormalizeRow(row.raw).locperilscovered)
    /\ (stage = "expanded"
          /\ NormalizeRow(row.raw).locperilscovered = PERIL_GROUP_ALL) =>
           /\ Cardinality(row.keys) = 9
           /\ { <<k.peril_id, k.coveragetype_id>> : k \in row.keys }
                  = perils \X coverages

C17_Witness ==
    /\ stage = "expanded"
    /\ "locperilscovered" \in DOMAIN row.raw
    /\ row.raw.locperilscovered = PERIL_GROUP_ALL
    /\ Cardinality(row.keys) = 9

\* C21: the step from the cascade category to the MCM code gives 51 and
\* nonres to occupancycode 1053, 6 and nonres to 1054, whatever the category
\* and the join; gives 1 and general_res to 1000, 1050 and 1051 when the
\* cascade left no category; and otherwise leaves the cascade category with
\* the mcm_code the join found for it (missing when it found none).
C21_PostJoinFixups ==
    [][stage = "categorised" =>
         LET occ == row.loc.occupancycode
             cat == row.loc.building_cat
             joined == McmResJoin(cat, YearbuiltCat(row.loc))
         IN  <<row'.loc.mcm_code, row'.loc.building_cat>> =
                 CASE occ = 1053 -> <<<<51>>, "nonres">>
                   [] occ = 1054 -> <<<<6>>, "nonres">>
                   [] occ \in {1000, 1050, 1051} /\ cat = NO_CAT ->
                          <<<<1>>, "general_res">>
                   [] OTHER -> <<joined, cat>>]_vars

C21_Witness ==
    /\ stage = "coded"
    /\ row.loc.occupancycode = 1053
    /\ row.loc.mobilehome_cat
    /\ ResidentialCategory(row.loc) = "bungalow"
    /\ notna(McmResJoin("bungalow", YearbuiltCat(row.loc)))
    /\ row.loc.mcm_code = <<51>>
    /\ row.loc.building_cat = "nonres"

\* the number of storeys of a location of category cat supplied with s
StoreysRule(cat, s) ==
    CASE cat \in {"bungalow", "general_res"} -> 0
      [] cat \in {"detached", "semidetached", "terraced"} /\ s = 0 -> 2
      [] cat \in {"flat", "nonres"} /\ s = 0 -> 1
      [] OTHER -> IF s > 6 THEN 6 ELSE s

\* C22: after get_number_of_storeys a location supplied with a storeys value
\* >= 0 has 0 storeys if bungalow or general_res, 2 if detached, semidetached
\* or terraced and supplied 0, 1 if flat or nonres and supplied 0, the
\* supplied value otherwise, and never more than 6.
C22_NumberOfStoreys ==
    (stage = "storeys" /\ NormalizeRow(row.raw).numberofstoreys >= 0) =>
        /\ row.loc.numberofstoreys =
               StoreysRule(row.loc.building_cat, NormalizeRow(row.raw).numberofstoreys)
        /\ row.loc.numberofstoreys <= 6

C22_Witness ==
    /\ stage = "storeys"
    /\ "numberofstoreys" \in DOMAIN row.raw
    /\ row.raw.numberofstoreys = 12
    /\ row.loc.building_cat = "flat"
    /\ row.loc.numberofstoreys = 6

\* the defaults of the 13 recognized fields (bipoi in half days,
\* firstfloorheight in 1/10000)
DocumentedDefault ==
    [locperilscovered |-> <<"O", "R", "F", ";", "O", "S", "F", ";", "W", "S", "S">>,
     buildingtype |-> 0,
     occupancycode |-> 1000,
     constructioncode |-> 5000,
     numberofstoreys |-> 0,
     floorsoccupied |-> <<"0">>,
     firstfloorheight |-> -9990000,
     firstfloorheightunit |-> 1,
     yearbuilt |-> 0,
     bipoi |-> 730,
     latitude |-> 0,
     longitude |-> 0,
     postalcode |-> <<"-", "1">>]

TextFields == {"locperilscovered", "floorsoccupied", "postalcode"}

IntegerFields ==
    {"buildingtype", "occupancycode", "constructioncode", "numberofstoreys",
     "firstfloorheightunit", "yearbuilt"}

FloatFields == {"firstfloorheight", "bipoi", "latitude", "longitude"}

\* the cell of field f after normalization of the supplied row
DocumentedCell(raw, f) ==
    IF f \notin DOMAIN raw THEN DocumentedDefault[f]
    ELSE IF f \in TextFields
         THEN (IF raw[f] = <<>> THEN DocumentedDefault[f] ELSE raw[f])
    ELSE IF f \in IntegerFields
         THEN (IF raw[f] = 0 THEN DocumentedDefault[f] ELSE raw[f])
    ELSE (IF isna(raw[f]) THEN DocumentedDefault[f] ELSE raw[f][1])

\* C18: after the defaults loop each of the 13 fields is there; an absent
\* field, an empty text cell and a zero integer cell hold the default (as
\* does a missing float cell), any other supplied value is kept; the
\* vulnerability override is locuserdef1 when supplied and 0 otherwise.
C18_FieldDefaults ==
    stage = "normalized" =>
        /\ TextFields \cup IntegerFields \cup FloatFields \subseteq DOMAIN row.loc
        /\ Cardinality(TextFields \cup IntegerFields \cup FloatFields) = 13
        /\ \A f \in TextFields \cup IntegerFields \cup FloatFields :
               row.loc[f] = DocumentedCell(row.raw, f)
        /\ row.loc.user_vulnerability_id =
               IF "locuserdef1" \in DOMAIN row.raw THEN row.raw.locuserdef1 ELSE 0

C18_Witness ==
    /\ stage = "normalized"
    /\ {"occupancycode", "postalcode", "bipoi", "locuserdef1"} \subseteq DOMAIN row.raw
    /\ row.raw.occupancycode = 0
    /\ row.raw.postalcode = <<>>
    /\ row.raw.locuserdef1 = 42
    /\ row.loc.occupancycode = 1000
    /\ row.loc.postalcode = <<"-", "1">>
    /\ row.loc.user_vulnerability_id = 42

-----------------------------------------------------------------------------
(* does_it_flood: the command on a small file system.  A path is the sequence
   of its components below the working directory (<<>> is "."); a file's
   content is the sequence of its characters; `row` holds the file system,
   the command's arguments, its locals and what it echoed. *)

\* f"The answer is {answer}"
ANSWER_PREFIX ==
    <<"T", "h", "e", " ", "a", "n", "s", "w", "e", "r", " ", "i", "s", " ">>

\* a byte sequence that is not UTF-8
INVALID_BYTE == "xFF"

\* Path.parent
Parent(p) == IF p = <<>> THEN <<>> ELSE SubSeq(p, 1, Len(p) - 1)

\* the proper ancestors of p
Ancestors(p) == { SubSeq(p, 1, n) : n \in 0..(Len(p) - 1) }

PathExists(fs, p) == p \in fs.dirs \/ p \in DOMAIN fs.files

is_dir(fs, p) == p \in fs.dirs

\* the error of os.mkdir(p), or "none"
os_mkdir(fs, p) ==
    IF \E a \in Ancestors(p) : a \in DOMAIN fs.files THEN "NotADirectoryError"
    ELSE IF ~is_dir(fs, Parent(p)) THEN "FileNotFoundError"
    ELSE IF PathExists(fs, p) THEN "FileExistsError"
    ELSE "none"

\* Path.mkdir(exist_ok=True, parents=True): the file system afterwards and
\* the exception raised
RECURSIVE mkdir(_, _)
mkdir(fs, p) ==
    LET e == os_mkdir(fs, p)
    IN  IF e = "none" THEN [fs |-> [fs EXCEPT !.dirs = @ \cup {p}], raised |-> "none"]
        ELSE IF e = "FileNotFoundError"
             THEN IF Parent(p) = p THEN [fs |-> fs, raised |-> e]
                  ELSE LET up == mkdir(fs, Parent(p))
                       IN  IF up.raised # "none" THEN up
                           ELSE [fs |-> [up.fs EXCEPT !.dirs = @ \cup {p}],
                                 raised |-> "none"]
        ELSE IF is_dir(fs, p) THEN [fs |-> fs, raised |-> "none"]
        ELSE [fs |-> fs, raised |-> e]

\* readline that returns the whole text
readline_ReadsAll(text) == text

\* TextIOWrapper.readline: up to and including the first "\n"
readline(text) ==
    IF \E n \in 1..Len(text) : text[n] = "\n"
    THEN SubSeq(text, 1, CHOOSE n \in 1..Len(text) :
                             /\ text[n] = "\n"
                             /\ \A m \in 1..(n - 1) : text[m] # "\n")
    ELSE text

\* text mode with newline=None: "\r\n" and "\r" are read as "\n"
RECURSIVE UniversalNewlines(_)
UniversalNewlines(data) ==
    IF data = <<>> THEN <<>>
    ELSE IF Head(data) = "\r"
         THEN IF Len(data) > 1 /\ data[2] = "\n"
              THEN <<"\n">> \o UniversalNewlines(SubSeq(data, 3, Len(data)))
              ELSE <<"\n">> \o UniversalNewlines(Tail(data))
    ELSE <<Head(data)>> \o UniversalNewlines(Tail(data))

\* the utf8 decoder accepts the file's bytes (a file of one read chunk)
Decodes(data) == \A n \in 1..Len(data) : data[n] # INVALID_BYTE

\* open(input_file_path, "r", encoding="utf8") and readline(): the answer and
\* the exception raised
ReadAnswer(fs, path) ==
    IF is_dir(fs, path) THEN [answer |-> <<>>, raised |-> "IsADirectoryError"]
    ELSE IF ~Decodes(fs.files[path]) THEN [answer |-> <<>>, raised |-> "UnicodeDecodeError"]
    ELSE [answer |-> readline(UniversalNewlines(fs.files[path])), raised |-> "none"]

\* Path.write_text(text, encoding="utf8") below an existing directory
write_text(fs, path, text) ==
    IF is_dir(fs, path) THEN [fs |-> fs, raised |-> "IsADirectoryError"]
    ELSE [fs |-> [fs EXCEPT !.files = (path :> text) @@ @], raised |-> "none"]

\* contents of the input file
FileContents ==
    {<<>>, <<"a">>, <<"a", "\n">>, <<"a", "\n", "b">>, <<"\n", "a">>,
     <<"a", "\r", "\n", "b">>, <<"a", "\r", "b">>,
     <<"a", "\n", INVALID_BYTE>>, <<INVALID_BYTE>>}

\* the working directory: a directory d, a file f and the input file
FileSystem(data) ==
    [dirs |-> {<<>>, <<"d">>},
     files |-> (<<"in">> :> data) @@ (<<"f">> :> <<"x">>)]

InputPaths == {<<"in">>, <<"d">>, <<"missing">>}

OutputPaths ==
    {<<"out">>, <<"d", "out">>, <<"n", "out">>, <<"n", "m", "out">>,
     <<"f">>, <<"in">>, <<"d">>, <<"f", "out">>, <<"f", "m", "out">>}

Coordinates == {0, 1}

InitFlood ==
    /\ dataset = {}
    /\ at_risk_df = {}
    /\ loc_df = {}
    /\ keys_df = {}
    /\ prev_loc_df = {}
    /\ prev_keys = {}
    /\ acc_keys = {}
    /\ covered = {}
    /\ disjoint = TRUE
    /\ calls = 0
    /\ raised = "none"
    /\ \E data \in FileContents, i \in InputPaths, o \in OutputPaths,
          lat \in Coordinates, lon \in Coordinates :
           row = [fs0 |-> FileSystem(data), fs |-> FileSystem(data),
                  input_file_path |-> i, output_file_path |-> o,
                  lat |-> lat, lon |-> lon, answer |-> <<>>, stdout |-> <<>>]
    /\ stage = "invoke"

\* click.Path(exists=True) on --input_file_path
CheckOptions ==
    /\ stage = "invoke"
    /\ stage' = IF PathExists(row.fs, row.input_file_path) THEN "mkdir" ELSE "usage_error"
    /\ UNCHANGED <<dataset, at_risk_df, loc_df, keys_df, prev_loc_df, prev_keys,
                   acc_keys, covered, disjoint, calls, raised, row>>

\* output_file.parent.mkdir(exist_ok=True, parents=True)
MakeParents ==
    /\ stage = "mkdir"
    /\ \E res \in {mkdir(row.fs, Parent(row.output_file_path))} :
           /\ row' = [row EXCEPT !.fs = res.fs]
           /\ raised' = res.raised
           /\ stage' = IF res.raised = "none" THEN "echo" ELSE "raised"
    /\ UNCHANGED <<dataset, at_risk_df, loc_df, keys_df, prev_loc_df, prev_keys,
                   acc_keys, covered, disjoint, calls>>

\* click.echo of the question
EchoQuestion ==
    /\ stage = "echo"
    /\ row' = [row EXCEPT !.stdout = Append(@, <<"Calculating", row.lat, row.lon>>)]
    /\ stage' = "read"
    /\ UNCHANGED <<dataset, at_risk_df, loc_df, keys_df, prev_loc_df, prev_keys,
                   acc_keys, covered, disjoint, calls, raised>>

\* with open(...) as input_file: answer = input_file.readline()
ReadFirstLine ==
    /\ stage = "read"
    /\ \E res \in {ReadAnswer(row.fs, row.input_file_path)} :
           /\ row' = [row EXCEPT !.answer = res.answer]
           /\ raised' = res.raised
           /\ stage' = IF res.raised = "none" THEN "write" ELSE "raised"
    /\ UNCHANGED <<dataset, at_risk_df, loc_df, keys_df, prev_loc_df, prev_keys,
                   acc_keys, covered, disjoint, calls>>

\* output_file.write_text(f"The answer is {answer}", encoding="utf8")
WriteAnswer ==
    /\ stage = "write"
    /\ \E res \in {write_text(row.fs, row.output_file_path, ANSWER_PREFIX \o row.answer)} :
           /\ row' = [row EXCEPT !.fs = res.fs]
           /\ raised' = res.raised
           /\ stage' = IF res.raised = "none" THEN "written" ELSE "raised"
    /\ UNCHANGED <<dataset, at_risk_df, loc_df, keys_df, prev_loc_df, prev_keys,
                   acc_keys, covered, disjoint, calls>>

\* click.echo("Finished!")
EchoFinished ==
    /\ stage = "written"
    /\ row' = [row EXCEPT !.stdout = Append(@, <<"Finished!">>)]
    /\ stage' = "finished"
    /\ UNCHANGED <<dataset, at_risk_df, loc_df, keys_df, prev_loc_df, prev_keys,
                   acc_keys, covered, disjoint, calls, raised>>

NextFlood ==
    \/ CheckOptions
    \/ MakeParents
    \/ EchoQuestion
    \/ ReadFirstLine
    \/ WriteAnswer
    \/ EchoFinished

SpecFlood == InitFlood /\ [][NextFlood]_vars

\* the command has ended
Ended == stage \in {"finished", "raised", "usage_error"}

\* the input path names a regular file of the file system the command met
InputIsFile == row.input_file_path \in DOMAIN row.fs0.files

\* the first line of a file: the characters before its first line ending
\* ("\n", "\r\n" or "\r") and "\n" for the line ending, or the whole file
RECURSIVE FirstLine(_)
FirstLine(data) ==
    IF data = <<>> THEN <<>>
    ELSE IF Head(data) \in {"\n", "\r"} THEN <<"\n">>
    ELSE <<Head(data)>> \o FirstLine(Tail(data))

\* the output file holds the answer for the input file
AnswerLeft ==
    /\ row.output_file_path \in DOMAIN row.fs.files
    /\ row.fs.files[row.output_file_path] =
           ANSWER_PREFIX \o FirstLine(row.fs0.files[row.input_file_path])

\* the input file is UTF-8 text
InputIsText == InputIsFile /\ Decodes(row.fs0.files[row.input_file_path])

\* the output path is no directory and lies below directories or below
\* nothing yet
OutputWritable ==
    /\ ~is_dir(row.fs0, row.output_file_path)
    /\ \A a \in Ancestors(row.output_file_path) : a \notin DOMAIN row.fs0.files

\* C19 as stated: for any input file and any output path the command ends
\* with the output file holding "The answer is " and the first line.
C19_AnyFileAnyPath ==
    (Ended /\ InputIsFile) => AnswerLeft

\* C19: for an input file that is UTF-8 text and an output path that is no
\* directory and has no file among its ancestors (missing ancestors are
\* made), whatever the latitude and longitude, the command finishes without
\* an exception and the output file holds "The answer is " followed by the
\* first line of the input file.
C19_AnswerWritten ==
    (Ended /\ InputIsText /\ OutputWritable) =>
        /\ stage = "finished"
        /\ raised = "none"
        /\ AnswerLeft

C19_Witness ==
    /\ stage = "finished"
    /\ row.output_file_path = <<"n", "m", "out">>
    /\ row.fs0.files[row.input_file_path] = <<"a", "\n", "b">>
    /\ row.lat # row.lon
    /\ is_dir(row.fs, <<"n", "m">>)
    /\ row.fs.files[row.output_file_path] = ANSWER_PREFIX \o <<"a", "\n">>

====
